---- MODULE Spec2Model ----
(***************************************************************************)
(* Model of the orchestration core of CodeForge-AI's backend:              *)
(*   - the per-provider circuit breaker and resilient_llm_call             *)
(*     (app/agents/core/resilience.py),                                    *)
(*   - the job store and the components that update jobs                   *)
(*     (app/services/job_queue.py, app/api/endpoints/agents.py,            *)
(*      app/workers/tasks.py).                                             *)
(* Time is counted in tenths of a second.                                  *)
(***************************************************************************)
EXTENDS Integers, Sequences, FiniteSets, TLC

VARIABLES
    now,        \* time.monotonic() / datetime.utcnow(), in tenths of a second
    cbs,        \* _circuit_breakers: provider -> CircuitBreaker (or NoBreaker)
    callers,    \* tasks calling cb.call / resilient_llm_call: their position and locals
    consec,     \* history: per provider, failures of the wrapped operation since its last success
    jobs,       \* the job store (_jobs): job_id -> Job
    tasks,      \* per job: the dispatcher / background task / worker task position
    graph,      \* a run of a compiled LangGraph (graph.ainvoke): its state and position
    mem,        \* an InMemoryJobStore: _jobs and _project_jobs
    redis,      \* the Redis server of a RedisJobStore: job:*, project_jobs:*, pending_jobs
    procs       \* threads / instances calling a store: their position and locals

vars == <<now, cbs, callers, consec, jobs, tasks, graph, mem, redis, procs>>

(***************************************************************************)
(* Bounds of the model                                                     *)
(***************************************************************************)
\* last clock value reached by unit ticks in the breaker specification
MaxTime == 3
\* number of idle periods (of one recovery_timeout) the resilient-call clock may add
MaxIdle == 1

(***************************************************************************)
(* Circuit breaker (resilience.py)                                         *)
(***************************************************************************)
CLOSED == "closed"
OPEN == "open"
HALF_OPEN == "half_open"
CircuitState == {CLOSED, OPEN, HALF_OPEN}

NoBreaker == [provider |-> "none"]
NoTime == -1

\* CircuitBreaker.__init__ defaults
DefaultFailureThreshold == 5
DefaultRecoveryTimeout == 600
DefaultHalfOpenMaxCalls == 2

Providers == {"openai", "google", "anthropic"}

\* CircuitBreaker.__init__
NewBreaker(provider, failure_threshold, recovery_timeout, half_open_max_calls) ==
    [ provider |-> provider,
      failure_threshold |-> failure_threshold,
      recovery_timeout |-> recovery_timeout,
      half_open_max_calls |-> half_open_max_calls,
      state |-> CLOSED,
      failure_count |-> 0,
      last_failure_time |-> NoTime,
      half_open_calls |-> 0 ]

\* mutant: every lookup constructs a breaker
get_circuit_breaker_Fresh(reg, provider) ==
    [reg EXCEPT ![provider] =
        NewBreaker(provider, DefaultFailureThreshold,
                   DefaultRecoveryTimeout, DefaultHalfOpenMaxCalls)]

\* get_circuit_breaker: the registry after the lookup (created lazily with the defaults)
get_circuit_breaker(reg, provider) ==
    IF reg[provider] = NoBreaker
    THEN [reg EXCEPT ![provider] =
            NewBreaker(provider, DefaultFailureThreshold,
                       DefaultRecoveryTimeout, DefaultHalfOpenMaxCalls)]
    ELSE reg

\* _detect_provider
detect_provider(agent_type) ==
    IF agent_type \in {"research", "qa", "wireframe"} THEN "openai"
    ELSE IF agent_type = "code" THEN "google"
    ELSE IF agent_type \in {"pedagogy", "roadmap"} THEN "anthropic"
    ELSE "openai"

\* mutant: the elapsed time is not compared with recovery_timeout
RecoveryElapsed_NoWait(cb, t) ==
    cb.last_failure_time # NoTime

\* the comparison of the elapsed time with recovery_timeout
RecoveryElapsed(cb, t) ==
    /\ cb.last_failure_time # NoTime
    /\ (t - cb.last_failure_time) >= cb.recovery_timeout

\* CircuitBreaker._check_state_transition
check_state_transition(cb, t) ==
    IF cb.state = OPEN /\ RecoveryElapsed(cb, t)
    THEN [cb EXCEPT !.state = HALF_OPEN, !.half_open_calls = 0]
    ELSE cb

\* mutant: the budget test lets one more probe through
HalfOpenExhausted_OneMore(cb) ==
    cb.state = HALF_OPEN /\ cb.half_open_calls > cb.half_open_max_calls

\* the half-open budget test of CircuitBreaker.call
HalfOpenExhausted(cb) ==
    cb.state = HALF_OPEN /\ cb.half_open_calls >= cb.half_open_max_calls

\* CircuitBreaker.call, first locked section: whether the call is rejected
\* (CircuitBreakerError) after the lazy transition
Rejects(cb, t) ==
    LET c1 == check_state_transition(cb, t)
    IN  c1.state = OPEN \/ HalfOpenExhausted(c1)

\* CircuitBreaker.call, first locked section: the breaker after it
AfterAdmission(cb, t) ==
    LET c1 == check_state_transition(cb, t)
    IN  IF c1.state = OPEN \/ HalfOpenExhausted(c1) THEN c1
        ELSE IF c1.state = HALF_OPEN
             THEN [c1 EXCEPT !.half_open_calls = c1.half_open_calls + 1]
             ELSE c1

\* CircuitBreaker.call, the locked section after a successful call
OnSuccess(cb) ==
    [cb EXCEPT !.state = CLOSED, !.failure_count = 0, !.half_open_calls = 0]

\* mutant: the breaker opens one failure late
ThresholdReached_Late(count, threshold) == count > threshold

\* the threshold test of CircuitBreaker.call
ThresholdReached(count, threshold) == count >= threshold

\* CircuitBreaker.call, the locked section after a failed call
OnFailure(cb, t) ==
    LET c1 == [cb EXCEPT !.failure_count = cb.failure_count + 1,
                         !.last_failure_time = t]
    IN  IF c1.state = HALF_OPEN THEN [c1 EXCEPT !.state = OPEN]
        ELSE IF ThresholdReached(c1.failure_count, c1.failure_threshold)
             THEN [c1 EXCEPT !.state = OPEN]
             ELSE c1

\* CircuitBreaker.reset
reset(cb) ==
    [cb EXCEPT !.state = CLOSED, !.failure_count = 0, !.half_open_calls = 0,
               !.last_failure_time = NoTime]

(***************************************************************************)
(* Exceptions raised by the wrapped operation, and their classification    *)
(***************************************************************************)
\* A Python str is the sequence of its characters.
\* str.lower(), for the letters A-Z
UpperToLower ==
    [A |-> "a", B |-> "b", C |-> "c", D |-> "d", E |-> "e", F |-> "f",
     G |-> "g", H |-> "h", I |-> "i", J |-> "j", K |-> "k", L |-> "l",
     M |-> "m", N |-> "n", O |-> "o", P |-> "p", Q |-> "q", R |-> "r",
     S |-> "s", T |-> "t", U |-> "u", V |-> "v", W |-> "w", X |-> "x",
     Y |-> "y", Z |-> "z"]
lower(s) ==
    [i \in 1..Len(s) |-> IF s[i] \in DOMAIN UpperToLower THEN UpperToLower[s[i]] ELSE s[i]]

\* `sub in s` for two strs
In(sub, s) ==
    \E i \in 0..(Len(s) - Len(sub)) : SubSeq(s, i + 1, i + Len(sub)) = sub

\* the literals _is_transient_error looks for
S_rate == <<"r", "a", "t", "e">>
S_limit == <<"l", "i", "m", "i", "t">>
S_429 == <<"4", "2", "9">>
S_500 == <<"5", "0", "0">>
S_502 == <<"5", "0", "2">>
S_503 == <<"5", "0", "3">>
S_529 == <<"5", "2", "9">>
S_overloaded == <<"o", "v", "e", "r", "l", "o", "a", "d", "e", "d">>
S_capacity == <<"c", "a", "p", "a", "c", "i", "t", "y">>
S_timeout == <<"t", "i", "m", "e", "o", "u", "t">>
S_connectionerror == <<"c", "o", "n", "n", "e", "c", "t", "i", "o", "n", "e", "r", "r", "o", "r">>
S_connecttimeout == <<"c", "o", "n", "n", "e", "c", "t", "t", "i", "m", "e", "o", "u", "t">>
S_readtimeout == <<"r", "e", "a", "d", "t", "i", "m", "e", "o", "u", "t">>
S_serviceunavailable == <<"s", "e", "r", "v", "i", "c", "e", "u", "n", "a", "v", "a", "i", "l", "a", "b", "l", "e">>
S_connection == <<"c", "o", "n", "n", "e", "c", "t", "i", "o", "n">>
S_ratelimiterror == <<"r", "a", "t", "e", "l", "i", "m", "i", "t", "e", "r", "r", "o", "r">>
S_apierror == <<"a", "p", "i", "e", "r", "r", "o", "r">>
S_server == <<"s", "e", "r", "v", "e", "r">>
S_resourceexhausted == <<"r", "e", "s", "o", "u", "r", "c", "e", "e", "x", "h", "a", "u", "s", "t", "e", "d">>
S_overloadederror == <<"o", "v", "e", "r", "l", "o", "a", "d", "e", "d", "e", "r", "r", "o", "r">>

\* An exception is the name of its type, type(exc).__name__, and its message, str(exc).
RateLimitExc ==
    [type |-> <<"E", "x", "c", "e", "p", "t", "i", "o", "n">>,
     message |-> <<"R", "a", "t", "e", " ", "l", "i", "m", "i", "t", " ", "e", "x", "c", "e", "e", "d", "e", "d">>]
TimeoutExc ==
    [type |-> <<"T", "i", "m", "e", "o", "u", "t", "E", "r", "r", "o", "r">>,
     message |-> <<"C", "o", "n", "n", "e", "c", "t", "i", "o", "n", " ", "t", "i", "m", "e", "d", " ", "o", "u", "t">>]
OverloadedExc ==
    [type |-> <<"O", "v", "e", "r", "l", "o", "a", "d", "e", "d", "E", "r", "r", "o", "r">>,
     message |-> <<"b", "u", "s", "y">>]
AuthExc ==
    [type |-> <<"V", "a", "l", "u", "e", "E", "r", "r", "o", "r">>,
     message |-> <<"I", "n", "v", "a", "l", "i", "d", " ", "A", "P", "I", " ", "k", "e", "y">>]
GenericExc ==
    [type |-> <<"R", "u", "n", "t", "i", "m", "e", "E", "r", "r", "o", "r">>,
     message |-> <<"L", "L", "M", " ", "e", "r", "r", "o", "r">>]

\* no exception: the call has raised nothing
NoExc == [type |-> <<>>, message |-> <<>>]

\* asyncio.CancelledError, raised inside func when the awaiting task is
\* cancelled or timed out by asyncio.wait_for: a BaseException, not an Exception
CancelledExc ==
    [type |-> <<"C", "a", "n", "c", "e", "l", "l", "e", "d", "E", "r", "r", "o", "r">>,
     message |-> <<>>]

\* exc is an exception that `except Exception` catches
RaisedException(exc) == exc # NoExc /\ exc # CancelledExc

\* the provider names as strs
ProviderName ==
    [openai |-> <<"o", "p", "e", "n", "a", "i">>,
     google |-> <<"g", "o", "o", "g", "l", "e">>,
     anthropic |-> <<"a", "n", "t", "h", "r", "o", "p", "i", "c">>]

\* CircuitBreakerError.__init__
CircuitBreakerError(provider) ==
    [type |-> <<"C", "i", "r", "c", "u", "i", "t", "B", "r", "e", "a", "k", "e", "r", "E", "r", "r", "o", "r">>,
     message |->
        <<"C", "i", "r", "c", "u", "i", "t", " ", "b", "r", "e", "a", "k",
          "e", "r", " ", "O", "P", "E", "N", " ", "f", "o", "r", " ", "p",
          "r", "o", "v", "i", "d", "e", "r", " ", "'">>
        \o ProviderName[provider] \o
        <<"'", ".", " ", "S", "e", "r", "v", "i", "c", "e", " ", "i", "s",
          " ", "t", "e", "m", "p", "o", "r", "a", "r", "i", "l", "y", " ",
          "u", "n", "a", "v", "a", "i", "l", "a", "b", "l", "e", ".", " ",
          "T", "r", "y", " ", "a", "g", "a", "i", "n", " ", "l", "a", "t",
          "e", "r", ".">>]

\* the exceptions the wrapped operation raises in the model
StepExceptions == {RateLimitExc, AuthExc}

\* _is_transient_error
is_transient_error(exc) ==
    LET exc_type == exc.type
        exc_str == lower(exc.message)
    IN  \/ In(S_rate, exc_str) /\ In(S_limit, exc_str)
        \/ In(S_429, exc_str)
        \/ \E code \in {S_500, S_502, S_503, S_529} : In(code, exc_str)
        \/ In(S_overloaded, exc_str) \/ In(S_capacity, exc_str)
        \/ lower(exc_type) \in {S_timeout, S_connectionerror, S_connecttimeout,
                                S_readtimeout, S_serviceunavailable}
        \/ In(S_timeout, exc_str) \/ In(S_connection, exc_str)
        \/ In(S_ratelimiterror, lower(exc_type))
        \/ (In(S_apierror, lower(exc_type))
               /\ (In(S_server, exc_str) \/ In(S_overloaded, exc_str)))
        \/ In(S_resourceexhausted, lower(exc_type))
        \/ In(S_overloadederror, lower(exc_type))

(***************************************************************************)
(* Backoff of resilient_llm_call                                           *)
(***************************************************************************)
RECURSIVE Pow2(_)
Pow2(n) == IF n <= 0 THEN 1 ELSE 2 * Pow2(n - 1)

Min(a, b) == IF a <= b THEN a ELSE b

\* mutant: the delay does not grow with the attempt
BackoffDelay_Flat(base_delay, max_delay, attempt) ==
    Min(base_delay, max_delay)

\* delay = min(base_delay * (2 ** (attempt - 1)), max_delay)
BackoffDelay(base_delay, max_delay, attempt) ==
    Min(base_delay * Pow2(attempt - 1), max_delay)

\* random.uniform(0, delay * 0.3): every point of the interval on the
\* model's grid of time (tenths of a second)
Jitters(delay) == 0..((3 * delay) \div 10)

(***************************************************************************)
(* Callers                                                                 *)
(***************************************************************************)
Callers == {"t1", "t2"}

\* a task that is not inside a call
IdleCaller ==
    [ pc |-> "idle", provider |-> "none", agent_type |-> "none",
      max_retries |-> 0, base_delay |-> 0, max_delay |-> 0,
      attempt |-> 0, hist |-> <<>>, waits |-> <<>>, wake_at |-> NoTime,
      admitted_in |-> "none", exc |-> NoExc, exc_attempt |-> 0, returned |-> FALSE ]

\* parameters resilient_llm_call is called with (delays in tenths of a second):
\* three attempts with a doubling backoff, four attempts with a backoff that
\* max_delay caps from the second wait on, and one capped from the first
CallConfigs ==
    { [agent_type |-> "research", max_retries |-> 3, base_delay |-> 4, max_delay |-> 300],
      [agent_type |-> "qa", max_retries |-> 4, base_delay |-> 4, max_delay |-> 6],
      [agent_type |-> "code", max_retries |-> 3, base_delay |-> 5, max_delay |-> 5] }

\* the parameters CircuitBreaker is constructed with in the breaker specification
BreakerConfigs ==
    { [failure_threshold |-> 2, recovery_timeout |-> 1, half_open_max_calls |-> 2],
      [failure_threshold |-> 3, recovery_timeout |-> 2, half_open_max_calls |-> 1] }

(***************************************************************************)
(* Direct clients of one breaker: `await cb.call(func)`                    *)
(***************************************************************************)
NoJobs == [j \in {} |-> 0]

\* no graph is being invoked
NoGraph == [outcome |-> "none"]

\* no store in use and nobody calling one
EmptyMem == [jobs |-> NoJobs, project_jobs |-> NoJobs]
EmptyRedis == [job |-> NoJobs, project_jobs |-> NoJobs, pending_jobs |-> {}]
NoStores == mem = EmptyMem /\ redis = EmptyRedis /\ procs = NoJobs

InitBreaker ==
    /\ now = 0
    /\ \E cfg \in BreakerConfigs :
          cbs = [p \in Providers |->
                    IF p = "openai"
                    THEN NewBreaker(p, cfg.failure_threshold, cfg.recovery_timeout,
                                    cfg.half_open_max_calls)
                    ELSE NoBreaker]
    /\ callers = [c \in Callers |-> IdleCaller]
    /\ consec = [p \in Providers |-> 0]
    /\ jobs = NoJobs
    /\ tasks = NoJobs
    /\ graph = NoGraph
    /\ NoStores

\* cb.call: the first locked section lets the call through; func starts
CallAdmitted(c, p) ==
    /\ callers[c].pc = "idle"
    /\ cbs[p] # NoBreaker
    /\ ~Rejects(cbs[p], now)
    /\ cbs' = [cbs EXCEPT ![p] = AfterAdmission(cbs[p], now)]
    /\ callers' = [callers EXCEPT ![c] =
                      [IdleCaller EXCEPT !.pc = "running", !.provider = p,
                                         !.admitted_in = cbs'[p].state]]
    /\ UNCHANGED <<mem, redis, procs, graph, now, consec, jobs, tasks>>

\* cb.call: the first locked section raises CircuitBreakerError; func is not called
CallRejected(c, p) ==
    /\ callers[c].pc = "idle"
    /\ cbs[p] # NoBreaker
    /\ Rejects(cbs[p], now)
    /\ cbs' = [cbs EXCEPT ![p] = AfterAdmission(cbs[p], now)]
    /\ callers' = [callers EXCEPT ![c] =
                      [IdleCaller EXCEPT !.provider = p, !.exc = CircuitBreakerError(p)]]
    /\ UNCHANGED <<mem, redis, procs, graph, now, consec, jobs, tasks>>

\* cb.call: func returned
CallSucceeds(c) ==
    /\ callers[c].pc = "running"
    /\ LET p == callers[c].provider
       IN  /\ cbs' = [cbs EXCEPT ![p] = OnSuccess(cbs[p])]
           /\ consec' = [consec EXCEPT ![p] = 0]
    /\ callers' = [callers EXCEPT ![c].pc = "idle", ![c].returned = TRUE]
    /\ UNCHANGED <<mem, redis, procs, graph, now, jobs, tasks>>

\* cb.call: func raised e, which is re-raised
CallFails(c, e) ==
    /\ callers[c].pc = "running"
    /\ LET p == callers[c].provider
       IN  /\ cbs' = [cbs EXCEPT ![p] = OnFailure(cbs[p], now)]
           /\ consec' = [consec EXCEPT ![p] = consec[p] + 1]
    /\ callers' = [callers EXCEPT ![c].pc = "idle", ![c].exc = e]
    /\ UNCHANGED <<mem, redis, procs, graph, now, jobs, tasks>>

\* cb.call: the task is cancelled while func runs; `except Exception` does
\* not catch asyncio.CancelledError, so neither locked section runs
CallCancelled(c) ==
    /\ callers[c].pc = "running"
    /\ callers' = [callers EXCEPT ![c].pc = "idle", ![c].exc = CancelledExc]
    /\ UNCHANGED <<mem, redis, procs, graph, now, cbs, consec, jobs, tasks>>

\* cb.reset().  A call that is running through the reset is no longer the
\* probe of a half-open breaker: admitted_in records that.
Reset(p) ==
    /\ cbs[p] # NoBreaker
    /\ cbs' = [cbs EXCEPT ![p] = reset(cbs[p])]
    /\ consec' = [consec EXCEPT ![p] = 0]
    /\ callers' = [c \in Callers |->
                      IF callers[c].pc = "running" /\ callers[c].provider = p
                      THEN [callers[c] EXCEPT !.admitted_in = CLOSED]
                      ELSE callers[c]]
    /\ UNCHANGED <<mem, redis, procs, graph, now, jobs, tasks>>

\* time passes
Tick ==
    /\ now < MaxTime
    /\ now' = now + 1
    /\ UNCHANGED <<mem, redis, procs, graph, cbs, callers, consec, jobs, tasks>>

NextBreaker ==
    \/ \E c \in Callers, p \in Providers : CallAdmitted(c, p)
    \/ \E c \in Callers, p \in Providers : CallRejected(c, p)
    \/ \E c \in Callers : CallSucceeds(c)
    \/ \E c \in Callers : CallFails(c, GenericExc)
    \/ \E c \in Callers : CallCancelled(c)
    \/ \E p \in Providers : Reset(p)
    \/ Tick

SpecBreaker == InitBreaker /\ [][NextBreaker]_vars

(***************************************************************************)
(* Claims about the circuit breaker (checked under SpecBreaker)            *)
(***************************************************************************)
Breakers == {p \in Providers : cbs[p] # NoBreaker}

\* less than recovery_timeout has passed since the last failure counted by breaker p
WithinRecovery(p) ==
    /\ cbs[p].last_failure_time # NoTime
    /\ now - cbs[p].last_failure_time < cbs[p].recovery_timeout

\* C3: the failure counter of a breaker is the number of failures of the wrapped
\* operation since its last success (a success resets it to zero); the breaker is
\* Closed exactly while that number is below failure_threshold, and once the
\* failure_threshold-th consecutive failure has happened it is Open (HalfOpen only
\* after recovery_timeout has elapsed since the last failure).
C3_OpensAtThreshold ==
    \A p \in Breakers :
        /\ cbs[p].failure_count = consec[p]
        /\ (cbs[p].state = CLOSED) <=> (consec[p] < cbs[p].failure_threshold)
        /\ (consec[p] >= cbs[p].failure_threshold /\ WithinRecovery(p))
              => cbs[p].state = OPEN

\* C3 witness: a breaker that has just opened at its failure_threshold-th failure
C3_Witness ==
    \E p \in Breakers :
        /\ cbs[p].state = OPEN
        /\ consec[p] = cbs[p].failure_threshold
        /\ cbs[p].failure_threshold >= 2

\* C4: a call that arrives while the breaker is Open and less than recovery_timeout
\* has passed since the last failure raises CircuitBreakerError, does not start the
\* wrapped operation, and leaves the breaker (state and counters) as it was.
C4_OpenRejects ==
    [][ \A c \in Callers, p \in Breakers :
          ( /\ callers[c].pc = "idle"
            /\ cbs[p].state = OPEN
            /\ WithinRecovery(p)
            /\ callers'[c] # callers[c]
            /\ callers'[c].provider = p )
          => ( /\ callers'[c].pc = "idle"
               /\ callers'[c].exc = CircuitBreakerError(p)
               /\ ~callers'[c].returned
               /\ cbs'[p] = cbs[p]
               /\ consec' = consec ) ]_vars

\* C4 witness: a call was rejected by a breaker that is Open and not yet due for recovery
C4_Witness ==
    \E c \in Callers, p \in Breakers :
        /\ callers[c].pc = "idle"
        /\ callers[c].provider = p
        /\ callers[c].exc = CircuitBreakerError(p)
        /\ cbs[p].state = OPEN
        /\ WithinRecovery(p)

\* C5: when a call admitted as a probe in HalfOpen completes, a success leaves the
\* breaker Closed with the failure counter and the probe counter at 0, and a failure
\* leaves it Open.
C5_ProbeCompletion ==
    [][ \A c \in Callers :
          ( /\ callers[c].pc = "running"
            /\ callers[c].admitted_in = HALF_OPEN
            /\ callers'[c].pc = "idle" )
          => LET p == callers[c].provider
             IN  /\ callers'[c].returned
                    => ( /\ cbs'[p].state = CLOSED
                         /\ cbs'[p].failure_count = 0
                         /\ cbs'[p].half_open_calls = 0 )
                 /\ RaisedException(callers'[c].exc) => cbs'[p].state = OPEN ]_vars

(***************************************************************************)
(* resilient_llm_call                                                      *)
(***************************************************************************)
InitResilient ==
    /\ now = 0
    /\ cbs = [p \in Providers |-> NoBreaker]
    /\ callers = [c \in Callers |-> IdleCaller]
    /\ consec = [p \in Providers |-> 0]
    /\ jobs = NoJobs
    /\ tasks = NoJobs
    /\ graph = NoGraph
    /\ NoStores

\* one attempt of the loop: what it did
Attempt(invoked, exc) == [invoked |-> invoked, exc |-> exc]

\* resilient_llm_call is entered: provider detection, registry lookup, attempt 1
RStart(c, cfg) ==
    /\ callers[c].pc = "idle"
    /\ LET p == detect_provider(cfg.agent_type)
       IN  /\ cbs' = get_circuit_breaker(cbs, p)
           /\ callers' = [callers EXCEPT ![c] =
                 [IdleCaller EXCEPT !.pc = "attempt", !.provider = p,
                                    !.agent_type = cfg.agent_type,
                                    !.max_retries = cfg.max_retries,
                                    !.base_delay = cfg.base_delay,
                                    !.max_delay = cfg.max_delay,
                                    !.attempt = 1]]
    /\ UNCHANGED <<mem, redis, procs, graph, now, consec, jobs, tasks>>

\* cb.call lets the attempt through; func starts
RAdmit(c) ==
    /\ callers[c].pc = "attempt"
    /\ LET p == callers[c].provider
       IN  /\ ~Rejects(cbs[p], now)
           /\ cbs' = [cbs EXCEPT ![p] = AfterAdmission(cbs[p], now)]
           /\ callers' = [callers EXCEPT ![c].pc = "running",
                                         ![c].admitted_in = cbs'[p].state]
    /\ UNCHANGED <<mem, redis, procs, graph, now, consec, jobs, tasks>>

\* mutant: CircuitBreakerError is handled like a transient error of func
OnCircuitBreakerError_Retry(me, e) ==
    IF me.attempt = me.max_retries
    THEN [me EXCEPT !.pc = "done", !.exc = e, !.exc_attempt = me.attempt,
                    !.hist = Append(@, Attempt(FALSE, e))]
    ELSE [me EXCEPT !.pc = "sleeping", !.hist = Append(@, Attempt(FALSE, e)),
                    !.waits = Append(@, BackoffDelay(me.base_delay, me.max_delay, me.attempt))]

\* `except CircuitBreakerError: raise`: the task after the handler
OnCircuitBreakerError(me, e) ==
    [me EXCEPT !.pc = "done", !.exc = e, !.exc_attempt = me.attempt,
               !.hist = Append(@, Attempt(FALSE, e))]

\* cb.call raises CircuitBreakerError, which resilient_llm_call re-raises
RReject(c) ==
    /\ callers[c].pc = "attempt"
    /\ LET p == callers[c].provider
       IN  /\ Rejects(cbs[p], now)
           /\ cbs' = [cbs EXCEPT ![p] = AfterAdmission(cbs[p], now)]
           /\ callers' = [callers EXCEPT
                 ![c] = OnCircuitBreakerError(callers[c], CircuitBreakerError(p))]
    /\ UNCHANGED <<mem, redis, procs, graph, now, consec, jobs, tasks>>

\* func returned: `return result`
RSucceed(c) ==
    /\ callers[c].pc = "running"
    /\ LET p == callers[c].provider
       IN  /\ cbs' = [cbs EXCEPT ![p] = OnSuccess(cbs[p])]
           /\ consec' = [consec EXCEPT ![p] = 0]
    /\ callers' = [callers EXCEPT ![c].pc = "done", ![c].returned = TRUE,
                                  ![c].hist = Append(@, Attempt(TRUE, NoExc))]
    /\ UNCHANGED <<mem, redis, procs, graph, now, jobs, tasks>>

\* mutant: a permanent error is retried like a transient one
GivesUp_RetryAll(e, attempt, max_retries) ==
    attempt = max_retries

\* mutant: the last retry is never made
GivesUp_OneShort(e, attempt, max_retries) ==
    ~is_transient_error(e) \/ attempt + 1 >= max_retries

\* the test that ends the retries
GivesUp(e, attempt, max_retries) ==
    ~is_transient_error(e) \/ attempt = max_retries

\* func raised e: either e is re-raised, or the backoff sleep starts
RFail(c, e) ==
    /\ callers[c].pc = "running"
    /\ LET p == callers[c].provider
           me == callers[c]
           delay == BackoffDelay(me.base_delay, me.max_delay, me.attempt)
       IN  /\ cbs' = [cbs EXCEPT ![p] = OnFailure(cbs[p], now)]
           /\ consec' = [consec EXCEPT ![p] = consec[p] + 1]
           /\ IF GivesUp(e, me.attempt, me.max_retries)
              THEN callers' = [callers EXCEPT
                      ![c].pc = "done", ![c].exc = e, ![c].exc_attempt = me.attempt,
                      ![c].hist = Append(@, Attempt(TRUE, e))]
              ELSE \E jitter \in Jitters(delay) :
                      callers' = [callers EXCEPT
                         ![c].pc = "sleeping",
                         ![c].hist = Append(@, Attempt(TRUE, e)),
                         ![c].waits = Append(@, delay + jitter),
                         ![c].wake_at = now + delay + jitter]
    /\ UNCHANGED <<mem, redis, procs, graph, now, jobs, tasks>>

\* the task is cancelled while func runs: asyncio.CancelledError passes
\* `except Exception` in cb.call and in resilient_llm_call; the breaker
\* records nothing and no retry is made
RCancelled(c) ==
    /\ callers[c].pc = "running"
    /\ callers' = [callers EXCEPT
          ![c].pc = "done", ![c].exc = CancelledExc, ![c].exc_attempt = callers[c].attempt,
          ![c].hist = Append(@, Attempt(TRUE, CancelledExc))]
    /\ UNCHANGED <<mem, redis, procs, graph, now, cbs, consec, jobs, tasks>>

\* the task is cancelled during asyncio.sleep(wait_time)
RCancelledAsleep(c) ==
    /\ callers[c].pc = "sleeping"
    /\ callers' = [callers EXCEPT
          ![c].pc = "done", ![c].exc = CancelledExc, ![c].exc_attempt = callers[c].attempt,
          ![c].wake_at = NoTime]
    /\ UNCHANGED <<mem, redis, procs, graph, now, cbs, consec, jobs, tasks>>

\* asyncio.sleep(wait_time) is over: the next iteration of the loop
RWake(c) ==
    /\ callers[c].pc = "sleeping"
    /\ now >= callers[c].wake_at
    /\ callers' = [callers EXCEPT ![c].pc = "attempt", ![c].attempt = @ + 1,
                                  ![c].wake_at = NoTime]
    /\ UNCHANGED <<mem, redis, procs, graph, now, cbs, consec, jobs, tasks>>

\* time passes until a sleeping task is due
RAdvance(c) ==
    /\ callers[c].pc = "sleeping"
    /\ callers[c].wake_at > now
    /\ now' = callers[c].wake_at
    /\ UNCHANGED <<mem, redis, procs, graph, cbs, callers, consec, jobs, tasks>>

\* time passes for one recovery_timeout of an open breaker
RIdle(p) ==
    /\ cbs[p] # NoBreaker
    /\ cbs[p].state = OPEN
    /\ now < MaxIdle * DefaultRecoveryTimeout
    /\ now' = now + cbs[p].recovery_timeout
    /\ UNCHANGED <<mem, redis, procs, graph, cbs, callers, consec, jobs, tasks>>

NextResilient ==
    \/ \E c \in Callers, cfg \in CallConfigs : RStart(c, cfg)
    \/ \E c \in Callers : RAdmit(c)
    \/ \E c \in Callers : RReject(c)
    \/ \E c \in Callers : RSucceed(c)
    \/ \E c \in Callers, e \in StepExceptions : RFail(c, e)
    \/ \E c \in Callers : RCancelled(c)
    \/ \E c \in Callers : RCancelledAsleep(c)
    \/ \E c \in Callers : RWake(c)
    \/ \E c \in Callers : RAdvance(c)
    \/ \E p \in Providers : RIdle(p)

SpecResilient == InitResilient /\ [][NextResilient]_vars

(***************************************************************************)
(* Claims about resilient_llm_call (checked under SpecResilient)           *)
(***************************************************************************)
TransientSamples == {RateLimitExc, TimeoutExc}

\* the attempts of a call in which func ran and raised a transient error
AllTransient(h) ==
    \A i \in 1..Len(h) : h[i].invoked /\ h[i].exc \in TransientSamples

\* C6: an attempt in which the wrapped operation raises a permanent error (an
\* authentication failure) is the last one: the call ends at once with that error,
\* no wait follows it, and when it is the first attempt the operation has run
\* exactly once and no wait was made at all.
C6_PermanentOnce ==
    \A c \in Callers :
        LET me == callers[c]
        IN  \A i \in 1..Len(me.hist) :
              (me.hist[i].invoked /\ me.hist[i].exc = AuthExc)
              => ( /\ i = Len(me.hist)
                   /\ me.pc = "done"
                   /\ me.exc = AuthExc
                   /\ ~me.returned
                   /\ Len(me.waits) = i - 1 )

\* C6 witness: a call ended by a permanent error on its first attempt
C6_Witness ==
    \E c \in Callers :
        /\ callers[c].pc = "done"
        /\ callers[c].hist = <<Attempt(TRUE, AuthExc)>>
        /\ callers[c].waits = <<>>

\* C7 as stated: a call that succeeds on attempt k after k-1 transient errors has made
\* k attempts and k-1 waits, each wait strictly longer than the one before.
C7_StrictlyIncreasingWaits ==
    \A c \in Callers :
        LET me == callers[c]
            k == Len(me.hist)
        IN  (me.pc = "done" /\ me.returned)
            => ( /\ k = me.attempt
                 /\ k <= me.max_retries
                 /\ AllTransient(SubSeq(me.hist, 1, k - 1))
                 /\ me.hist[k] = Attempt(TRUE, NoExc)
                 /\ Len(me.waits) = k - 1
                 /\ \A i \in 1..(Len(me.waits) - 1) : me.waits[i] < me.waits[i + 1] )

\* C7 amended: a call that succeeds on attempt k after k-1 transient errors has made
\* k attempts and k-1 waits; a wait is strictly longer than the one before it whenever
\* its backoff is not cut by max_delay (base_delay * 2^(attempt-1) <= max_delay, with
\* base_delay > 0).
C7_IncreasingUntilCapped ==
    \A c \in Callers :
        LET me == callers[c]
            k == Len(me.hist)
        IN  (me.pc = "done" /\ me.returned)
            => ( /\ k = me.attempt
                 /\ k <= me.max_retries
                 /\ AllTransient(SubSeq(me.hist, 1, k - 1))
                 /\ me.hist[k] = Attempt(TRUE, NoExc)
                 /\ Len(me.waits) = k - 1
                 /\ \A i \in 1..(Len(me.waits) - 1) :
                       (me.base_delay > 0 /\ me.base_delay * Pow2(i) <= me.max_delay)
                       => me.waits[i] < me.waits[i + 1] )

\* C7 witness: a call that succeeded on its third attempt, after two growing waits
C7_Witness ==
    \E c \in Callers :
        /\ callers[c].pc = "done"
        /\ callers[c].returned
        /\ Len(callers[c].hist) = 3
        /\ Len(callers[c].waits) = 2
        /\ callers[c].base_delay * 2 <= callers[c].max_delay
        /\ callers[c].waits[1] < callers[c].waits[2]

\* C8: a call whose attempts all ran the wrapped operation and all raised transient
\* errors ends only after exactly max_retries attempts, with the error of the last
\* attempt; it never makes more than max_retries attempts.  (A task cancelled from
\* outside during a backoff sleep is ended by the cancellation, not by the call.)
C8_ExhaustsRetries ==
    \A c \in Callers :
        LET me == callers[c]
            k == Len(me.hist)
        IN  /\ k <= me.max_retries
            /\ (me.pc = "done" /\ me.exc # CancelledExc /\ k >= 1 /\ AllTransient(me.hist))
               => ( /\ k = me.max_retries
                    /\ me.exc = me.hist[k].exc
                    /\ me.exc_attempt = k
                    /\ ~me.returned
                    /\ Len(me.waits) = k - 1 )

\* C8 witness: a call ended by the transient error of its third and last attempt
C8_Witness ==
    \E c \in Callers :
        /\ callers[c].pc = "done"
        /\ callers[c].max_retries = 3
        /\ Len(callers[c].hist) = 3
        /\ AllTransient(callers[c].hist)
        /\ callers[c].exc = RateLimitExc
        /\ callers[c].exc_attempt = 3

\* C9: an attempt rejected by the breaker is the last one: the wrapped operation does
\* not run in it, the call ends at once with CircuitBreakerError, and no wait follows.
C9_RejectionPropagates ==
    \A c \in Callers :
        LET me == callers[c]
        IN  \A i \in 1..Len(me.hist) :
              ~me.hist[i].invoked
              => ( /\ i = Len(me.hist)
                   /\ me.pc = "done"
                   /\ me.exc = CircuitBreakerError(me.provider)
                   /\ me.hist[i].exc = me.exc
                   /\ ~me.returned
                   /\ Len(me.waits) = i - 1 )

\* C9 witness: a call rejected on a retry, with retries still left
C9_Witness ==
    \E c \in Callers :
        /\ callers[c].pc = "done"
        /\ callers[c].exc = CircuitBreakerError(callers[c].provider)
        /\ Len(callers[c].hist) >= 2
        /\ Len(callers[c].hist) < callers[c].max_retries

\* the task is about to make its next call on the breaker of provider p, which has
\* seen failure_threshold or more consecutive failures of the wrapped operation
NextCallAfterThreshold(c, p) ==
    /\ callers[c].pc = "attempt"
    /\ callers[c].provider = p
    /\ consec[p] >= cbs[p].failure_threshold
    /\ callers'[c] # callers[c]

\* the call of task c was rejected without running the wrapped operation
RejectedAtOnce(c, p) ==
    /\ callers'[c].pc = "done"
    /\ callers'[c].exc = CircuitBreakerError(p)
    /\ ~callers'[c].hist[Len(callers'[c].hist)].invoked
    /\ consec' = consec

\* C10 as stated: every failed attempt counts once on the provider's breaker, and after
\* failure_threshold consecutive failures the next call on that provider is rejected
\* with CircuitBreakerError without running the step.
C10_NextCallRejected ==
    [][ /\ \A p \in Providers : cbs'[p] # NoBreaker => cbs'[p].failure_count = consec'[p]
        /\ \A c \in Callers, p \in Breakers :
              NextCallAfterThreshold(c, p) => RejectedAtOnce(c, p) ]_vars

\* C10 amended: every failed attempt counts once on the provider's breaker, and after
\* failure_threshold consecutive failures the next call on that provider that arrives
\* less than recovery_timeout after the last failure is rejected with
\* CircuitBreakerError without running the step.
C10_NextCallRejectedInTime ==
    [][ /\ \A p \in Providers : cbs'[p] # NoBreaker => cbs'[p].failure_count = consec'[p]
        /\ \A c \in Callers, p \in Breakers :
              (NextCallAfterThreshold(c, p) /\ WithinRecovery(p))
              => RejectedAtOnce(c, p) ]_vars

\* C10 witness: five consecutive failures on a default breaker, then a rejected attempt
C10_Witness ==
    \E c \in Callers :
        LET p == callers[c].provider
        IN  /\ callers[c].pc = "done"
            /\ callers[c].exc = CircuitBreakerError(p)
            /\ cbs[p].failure_threshold = DefaultFailureThreshold
            /\ consec[p] = DefaultFailureThreshold
            /\ cbs[p].state = OPEN

(***************************************************************************)
(* The job store (app/services/job_queue.py)                               *)
(***************************************************************************)
\* the job id the callers of create_job use; the steps of a job read and
\* write no other job
JobIds == {1}

\* datetime.utcnow() takes the values 0 .. MaxClock while jobs are updated
MaxClock == 1

QUEUED == "queued"
RUNNING == "running"
COMPLETED == "completed"
FAILED == "failed"

\* class JobStatusType(str, Enum): its members, by name
JobStatusMembers ==
    [QUEUED |-> QUEUED, RUNNING |-> RUNNING, COMPLETED |-> COMPLETED, FAILED |-> FAILED]

JobStatusType == {JobStatusMembers[name] : name \in DOMAIN JobStatusMembers}

\* the expression JobStatusType.<name>: the member of that name; for a name
\* the class does not have, AttributeError, whose str() is the name
JobStatusMember(name) ==
    IF name \in DOMAIN JobStatusMembers
    THEN [raised |-> "none", value |-> JobStatusMembers[name], message |-> ""]
    ELSE [raised |-> "AttributeError", value |-> "", message |-> name]

\* the values the tests expect of the members WAITING_FOR_INPUT and
\* CANCELLED, the statuses WaitingForInput and Cancelled of the claims
WaitingForInput == "waiting_for_input"
Cancelled == "cancelled"

\* Optional[T]: None is the empty tuple, a value v is <<v>>.
None == <<>>
Some(v) == <<v>>

\* the fields of the dataclass Job
JobFields ==
    {"job_id", "project_id", "agent_type", "status", "input_context", "result",
     "error", "progress", "created_at", "started_at", "completed_at"}

\* the object has the attribute: a field of the dataclass, or an attribute
\* assigned to the object
HasAttribute(job, name) == name \in JobFields \/ name \in DOMAIN job

\* the keyword parameters of create_job(self, job_id, project_id,
\* agent_type, input_context)
CreateJobKeywords == {"job_id", "project_id", "agent_type", "input_context"}

\* the call create_job(**kwargs) on either store: Python raises TypeError
\* for a keyword the method does not have
create_job_call(kwargs) ==
    IF kwargs \subseteq CreateJobKeywords
    THEN [raised |-> "none"] ELSE [raised |-> "TypeError"]

\* Job(job_id, project_id, agent_type, input_context): the dataclass defaults.
NewJob(agent_type, t) ==
    [agent_type |-> agent_type, status |-> QUEUED, result |-> None,
     error |-> None, progress |-> 0,
     started_at |-> None, completed_at |-> None]

\* Job.is_complete
is_complete(job) == job.status \in {COMPLETED, FAILED}

Max(a, b) == IF a >= b THEN a ELSE b

\* The `if status:` block of update_job.
ApplyStatus(job, status, t) ==
    IF status = None THEN job
    ELSE LET s1 == [job EXCEPT !.status = status[1]]
             s2 == IF status[1] = RUNNING /\ s1.started_at = None
                   THEN [s1 EXCEPT !.started_at = Some(t)] ELSE s1
         IN IF is_complete(s2) THEN [s2 EXCEPT !.completed_at = Some(t)] ELSE s2

\* The `if progress is not None:` block: clamped to 0..100.
ApplyProgress(job, progress) ==
    IF progress = None THEN job
    ELSE [job EXCEPT !.progress = Max(0, Min(100, progress[1]))]

\* The `if result is not None:` block.
ApplyResult(job, result) ==
    IF result = None THEN job ELSE [job EXCEPT !.result = result]

\* The `if error:` block: None and the empty string are both falsy.
ApplyError(job, error, t) ==
    IF error = None \/ error = Some("") THEN job
    ELSE [job EXCEPT !.error = error, !.status = FAILED, !.completed_at = Some(t)]

\* mutant: update_job with the error block before the status block
UpdatedJob_ErrorFirst(job, status, progress, result, error, t) ==
    ApplyStatus(ApplyResult(ApplyProgress(ApplyError(job, error, t), progress), result), status, t)

\* update_job on a stored job: the four blocks in the order of the code.
UpdatedJob(job, status, progress, result, error, t) ==
    ApplyError(ApplyResult(ApplyProgress(ApplyStatus(job, status, t), progress), result), error, t)

\* update_job(job_id, ...): an unknown job_id leaves the store as it is.
update_job(store, job_id, status, progress, result, error, t) ==
    IF job_id \notin DOMAIN store THEN store
    ELSE [store EXCEPT ![job_id] = UpdatedJob(@, status, progress, result, error, t)]

\* create_job(job_id, ...)
create_job(store, job_id, agent_type, t) ==
    [j \in DOMAIN store \cup {job_id} |->
        IF j = job_id THEN NewJob(agent_type, t) ELSE store[j]]

(***************************************************************************)
(* The LangGraph workflows (app/agents/graph): the state is a dictionary,  *)
(* a node returns a patch that is merged into it.                          *)
(***************************************************************************)
MaxIterations == 5

\* dict.get(key, default)
Get(d, key, default) == IF key \in DOMAIN d THEN d[key] ELSE default

\* the merge of a node's patch into the state
Merge(state, patch) ==
    [k \in DOMAIN state \cup DOMAIN patch |->
        IF k \in DOMAIN patch THEN patch[k] ELSE state[k]]

EmptyDict == [k \in {} |-> TRUE]

\* get_initial_state(...): every output is None, iteration_count is 0
get_initial_state(agent_type, max_iterations) ==
    [agent_type |-> agent_type,
     requirements_spec |-> None, architecture_spec |-> None,
     generated_code |-> None, qa_result |-> None,
     pedagogy_response |-> None, roadmap |-> None,
     iteration_count |-> 0, max_iterations |-> max_iterations,
     progress |-> 0, current_node |-> ""]

\* the progress a node reports (research_node, wireframe_node, code_node, qa_node)
NodeProgress(node) ==
    CASE node = "research" -> 20
      [] node = "wireframe" -> 40
      [] node = "code" -> 60
      [] node = "qa" -> 80

\* the patch a node returns; passed is the verdict of run_qa_agent
NodePatch(node, state, passed) ==
    CASE node = "research" ->
            [requirements_spec |-> Some("requirements"),
             current_node |-> node, progress |-> NodeProgress(node)]
      [] node = "wireframe" ->
            [architecture_spec |-> Some("architecture"),
             current_node |-> node, progress |-> NodeProgress(node)]
      [] node = "code" ->
            [generated_code |-> Some("files"),
             current_node |-> node, progress |-> NodeProgress(node),
             iteration_count |-> Get(state, "iteration_count", 0) + 1]
      [] node = "qa" ->
            [qa_result |-> Some([passed |-> passed]),
             current_node |-> node, progress |-> NodeProgress(node)]

\* should_retry_code retrying whatever the verdict is
should_retry_code_IgnoresVerdict(passed, iteration_count, max_iterations) ==
    IF iteration_count < max_iterations THEN "retry" ELSE "end"

\* should_retry_code allowing one attempt too many
should_retry_code_OffByOne(passed, iteration_count, max_iterations) ==
    IF ~passed /\ iteration_count <= max_iterations THEN "retry" ELSE "end"

\* should_retry_code: the edge taken after the QA node
should_retry_code(passed, iteration_count, max_iterations) ==
    IF ~passed /\ iteration_count < max_iterations THEN "retry" ELSE "end"

\* should_retry_code(state), with its reads of the state: a missing key
\* takes the default, a qa_result of None has no .get
RetryDecision(state) ==
    LET qa_result == Get(state, "qa_result", Some(EmptyDict))
    IN IF qa_result = None THEN "AttributeError"
       ELSE should_retry_code(Get(qa_result[1], "passed", TRUE),
                              Get(state, "iteration_count", 0),
                              Get(state, "max_iterations", 5))

\* the edges of build_builder_pipeline, taken on the merged state
NextNode(node, state) ==
    CASE node = "research" -> "wireframe"
      [] node = "wireframe" -> "code"
      [] node = "code" -> "qa"
      [] node = "qa" ->
            CASE RetryDecision(state) = "retry" -> "code"
              [] RetryDecision(state) = "end" -> "END"
              [] OTHER -> "RAISE"

\* graph.ainvoke(initial): the run, with the history of what it did
NewRun(initial) ==
    [state |-> initial, next |-> "research", outcome |-> "running",
     node_runs |-> 0, code_runs |-> 0, qa_runs |-> 0, verdicts |-> <<>>]

\* how the run stands once the node before `next` has returned
RunOutcome(next) ==
    CASE next = "END" -> "ended"
      [] next = "RAISE" -> "raised"
      [] OTHER -> "running"

\* one superstep: the node run.next returns and its patch is merged
InvokeNode(run, passed) ==
    LET n == run.next
        merged == Merge(run.state, NodePatch(n, run.state, passed))
        next == NextNode(n, merged)
    IN [state |-> merged, next |-> next, outcome |-> RunOutcome(next),
        node_runs |-> run.node_runs + 1,
        code_runs |-> IF n = "code" THEN run.code_runs + 1 ELSE run.code_runs,
        qa_runs |-> IF n = "qa" THEN run.qa_runs + 1 ELSE run.qa_runs,
        verdicts |-> IF n = "qa" THEN Append(run.verdicts, passed) ELSE run.verdicts]

(***************************************************************************)
(* The components that update jobs: the API handlers and the local         *)
(* background functions (app/api/endpoints/agents.py) and the worker tasks *)
(* (app/workers/tasks.py).  A step is what a component does between two    *)
(* points where another component can run.  The handlers run_agent and     *)
(* run_pipeline raise before they create a job, so a job is in the store   *)
(* because create_job was called with the keywords it has, as the tests    *)
(* call it, and it is executed because one of the background functions or  *)
(* worker tasks is invoked for it.                                         *)
(***************************************************************************)
\* results a component stores
CeleryTaskId == "_celery_task_id"      \* {"_celery_task_id": ...}
Clarification == "questions"           \* {"is_complete": False, "questions": ...}
FinalResult == "result"                \* the agent's or the pipeline's result

\* str(e) of the exceptions a step can raise
AgentErrors == {"Agent execution failed: no result"}    \* AgentExecutionError
ResearchErrors == {"LLM call failed", ""}               \* any exception, str(e) may be empty
PipelineErrors == {"Builder pipeline failed", ""}          \* any exception, as raised

\* str(exc) of the SoftTimeLimitExceeded the worker raises in the task
SoftTimeLimitMessage == "SoftTimeLimitExceeded()"

\* settings.MAX_AGENT_ITERATIONS (5 unless the environment sets it), as configured here
MAX_AGENT_ITERATIONS == 2

AgentTypes == {"research", "code"}

\* the keywords run_agent, run_pipeline and respond_to_clarification pass to
\* create_job
HandlerCreateKeywords ==
    {"job_id", "project_id", "agent_type", "input_context", "user_id"}

\* the execution of a job: the function or task invoked for it (kind, and
\* celery for a worker task), its position (pc), its arguments, the attempt
\* on which run_qa_agent passes the code (qa_passes_on), its run of the
\* pipeline graph, the exception the task raised to Celery (exc), and the
\* history of what interrupted it (faults) and of how the job and the run
\* stood at the first request to cancel the job (cancel_mark)
NewTask(kind, celery, agent_type, clarifications, skip_clarification, qa_passes_on) ==
    [kind |-> kind, celery |-> celery,
     pc |-> IF celery THEN "task_start" ELSE "start",
     agent_type |-> agent_type, clarifications |-> clarifications,
     skip_clarification |-> skip_clarification, qa_passes_on |-> qa_passes_on,
     run |-> NewRun(get_initial_state(agent_type, MAX_AGENT_ITERATIONS)), exc |-> None,
     faults |-> {}, cancel_mark |-> None]

Extend(f, k, v) == [x \in DOMAIN f \cup {k} |-> IF x = k THEN v ELSE f[x]]

\* the next job id the callers use
FreshJobId == Cardinality(DOMAIN jobs) + 1

JobSteps(j) == j \in DOMAIN jobs /\ j \in DOMAIN tasks

\* what a handler answered: the exception it raised, or none
Answer(op, job_id, raised) == Some([op |-> op, job_id |-> job_id, raised |-> raised])

\* run_agent: get_project, sanitize_dict, then job_store.create_job(...,
\* user_id=user.id), which raises TypeError; `except Exception: raise`
\* hands it on, and neither the job nor its dispatch (to Celery when celery,
\* to BackgroundTasks otherwise) comes about
RunAgent(agent_type, skip_clarification, celery) ==
    LET call == create_job_call(HandlerCreateKeywords)
    IN /\ jobs' = IF call.raised # "none" THEN jobs
                  ELSE create_job(jobs, FreshJobId, agent_type, now)
       /\ tasks' = IF call.raised # "none" THEN tasks
                   ELSE Extend(tasks, FreshJobId,
                               NewTask("agent", celery, agent_type, FALSE,
                                       skip_clarification, 1))
       /\ procs' = [procs EXCEPT !.last = Answer("run_agent", FreshJobId, call.raised)]
       /\ UNCHANGED <<mem, redis, graph, now, cbs, callers, consec>>

\* run_pipeline: the same for the builder pipeline
RunPipeline(celery) ==
    LET call == create_job_call(HandlerCreateKeywords)
    IN /\ jobs' = IF call.raised # "none" THEN jobs
                  ELSE create_job(jobs, FreshJobId, "builder", now)
       /\ tasks' = IF call.raised # "none" THEN tasks
                   ELSE Extend(tasks, FreshJobId,
                               NewTask("pipeline", celery, "builder", FALSE, FALSE, 1))
       /\ procs' = [procs EXCEPT !.last = Answer("run_pipeline", FreshJobId, call.raised)]
       /\ UNCHANGED <<mem, redis, graph, now, cbs, callers, consec>>

\* job_store.create_job(job_id, project_id, agent_type, input_context) for a
\* job that execute_agent_background (on the API's event loop) or
\* execute_single_agent_task (in a worker, on the same store) is then
\* invoked for; the request carries the answers to the clarifying questions
\* (clarifications), asks to skip them (skip_clarification), or neither
CreateAgentJob(agent_type, clarifications, skip_clarification, celery) ==
    /\ FreshJobId \in JobIds
    /\ create_job_call(CreateJobKeywords).raised = "none"
    /\ agent_type = "research" \/ (~clarifications /\ ~skip_clarification)
    /\ jobs' = create_job(jobs, FreshJobId, agent_type, now)
    /\ tasks' = Extend(tasks, FreshJobId,
                       NewTask("agent", celery, agent_type, clarifications,
                               skip_clarification, 1))
    /\ UNCHANGED <<mem, redis, procs, graph, now, cbs, callers, consec>>

\* the same for a job that execute_pipeline_background or
\* execute_pipeline_task is then invoked for; run_qa_agent fails the code
\* on the attempts before qa_passes_on and passes it on that one
CreatePipelineJob(celery, qa_passes_on) ==
    /\ FreshJobId \in JobIds
    /\ create_job_call(CreateJobKeywords).raised = "none"
    /\ jobs' = create_job(jobs, FreshJobId, "builder", now)
    /\ tasks' = Extend(tasks, FreshJobId,
                       NewTask("pipeline", celery, "builder", FALSE, FALSE, qa_passes_on))
    /\ UNCHANGED <<mem, redis, procs, graph, now, cbs, callers, consec>>

\* job_store.get_job(job_id)
get_job(store, job_id) == IF job_id \in DOMAIN store THEN Some(store[job_id]) ELSE None

\* cancel_job(job_id), its statements in their order up to the first that
\* raises: the job is looked up, `job.user_id` is read, the job must not be
\* complete, (the Celery task of a job that holds a task id is revoked,)
\* JobStatusType.CANCELLED is looked up and the job updated with it and
\* with job.progress
cancel_job(found, user) ==
    IF found = None
    THEN [raised |-> "ResourceNotFoundError", update |-> None]
    ELSE IF ~HasAttribute(found[1], "user_id")
    THEN [raised |-> "AttributeError", update |-> None]
    ELSE IF found[1].user_id # None /\ found[1].user_id # Some(user)
    THEN [raised |-> "PermissionError", update |-> None]
    ELSE IF is_complete(found[1])
    THEN [raised |-> "ValidationError", update |-> None]
    ELSE IF JobStatusMember("CANCELLED").raised # "none"
    THEN [raised |-> JobStatusMember("CANCELLED").raised, update |-> None]
    ELSE [raised |-> "none",
          update |-> Some([status |-> Some(JobStatusMember("CANCELLED").value),
                           progress |-> Some(found[1].progress)])]

\* the user of the requests
User == "user-1"

\* a request to cancel job j: what cancel_job answers and the update it
\* makes when it raises nothing
CancelJob(j) ==
    LET call == cancel_job(get_job(jobs, j), User)
    IN /\ jobs' = IF call.update = None THEN jobs
                  ELSE update_job(jobs, j, call.update[1].status,
                                  call.update[1].progress, None, None, now)
       /\ tasks' = IF j \notin DOMAIN tasks THEN tasks
                   ELSE [tasks EXCEPT ![j].cancel_mark =
                            IF @ # None THEN @
                            ELSE Some([status |-> jobs[j].status,
                                       pc |-> tasks[j].pc,
                                       node_runs |-> tasks[j].run.node_runs,
                                       outcome |-> tasks[j].run.outcome,
                                       progress |-> jobs[j].progress])]
       /\ procs' = [procs EXCEPT !.last = Answer("cancel_job", j, call.raised)]
       /\ UNCHANGED <<mem, redis, graph, now, cbs, callers, consec>>

\* the call update_job(job_id, ...) a step makes, as the job it has read
\* with the arguments applied; NoUpdate when the step makes none
NoUpdate == None
Update(j, status, progress, result, error) ==
    Some(UpdatedJob(jobs[j], status, progress, result, error, now))

\* a step of the execution of job j at position pc: the update_job it calls
\* and the next position
TaskStep(j, pc, upd, newTask) ==
    /\ JobSteps(j)
    /\ tasks[j].pc = pc
    /\ jobs' = IF upd = NoUpdate THEN jobs ELSE [jobs EXCEPT ![j] = upd[1]]
    /\ tasks' = [tasks EXCEPT ![j] = newTask]
    /\ UNCHANGED <<mem, redis, procs, graph, now, cbs, callers, consec>>

\* _check_cancelled(job_id): `job and job.status == JobStatusType.CANCELLED`
\* is False for a job the store does not hold; for a job it holds the
\* member is looked up, which raises
check_cancelled(found) ==
    IF found = None
    THEN [raised |-> "none", value |-> FALSE, message |-> ""]
    ELSE IF JobStatusMember("CANCELLED").raised # "none"
    THEN [raised |-> JobStatusMember("CANCELLED").raised, value |-> FALSE,
          message |-> JobStatusMember("CANCELLED").message]
    ELSE [raised |-> "none",
          value |-> found[1].status = JobStatusMember("CANCELLED").value,
          message |-> ""]

\* execute_single_agent_task / execute_pipeline_task, entry, before the
\* try: mark the job running and store the Celery task id
WorkerStart(j) ==
    TaskStep(j, "task_start",
             Update(j, Some(RUNNING), Some(5), Some(CeleryTaskId), None),
             [tasks[j] EXCEPT !.pc = "task_check"])

\* where the function a task runs begins
Body(task) == IF task.kind = "agent" THEN "start" ELSE "node"

\* the worker tasks' `if _check_cancelled(job_id): return None`, inside the
\* try: an exception of the check goes to `except Exception as e`
WorkerCheckCancelled(j) ==
    LET check == check_cancelled(get_job(jobs, j))
    IN TaskStep(j, "task_check", NoUpdate,
                [tasks[j] EXCEPT !.pc = IF check.raised # "none" THEN "handler"
                                        ELSE IF check.value THEN "done"
                                        ELSE Body(tasks[j]),
                                 !.exc = IF check.raised # "none"
                                         THEN Some(check.message) ELSE None])

\* the worker tasks' `except Exception as e: store.update_job(job_id,
\* error=str(e))`: the error is stored and the handler is at its `raise`
WorkerExcept(j) ==
    TaskStep(j, "handler",
             Update(j, None, None, None, tasks[j].exc),
             [tasks[j] EXCEPT !.pc = "handler_raise"])

\* the `raise` that ends the handler: the exception leaves the task and
\* Celery calls on_failure with it
WorkerReraise(j) ==
    TaskStep(j, "handler_raise", NoUpdate, [tasks[j] EXCEPT !.pc = "on_failure"])

\* AgentTask.on_failure(exc, ...), which Celery calls for the exception the
\* task raised: store.update_job(job_id, error=str(exc))
WorkerOnFailure(j) ==
    TaskStep(j, "on_failure",
             Update(j, None, None, None, tasks[j].exc),
             [tasks[j] EXCEPT !.pc = "done"])

\* the message the worker tasks store on SoftTimeLimitExceeded
TimeoutMessage(kind) ==
    IF kind = "agent" THEN "Agent execution timed out" ELSE "Builder pipeline timed out"

\* the positions of a worker task in the code of the task
TaskCode == {"task_start", "task_check", "handler", "handler_raise", "on_failure"}

\* the soft time limit expires, once, and SoftTimeLimitExceeded is raised
\* where the task is.  Before the try (task_start) and inside the handler
\* of `except Exception`, before its update_job (handler) or between the
\* update_job and the `raise` (handler_raise), nothing of the task catches
\* it: it leaves the task in place of the exception being handled and
\* Celery calls on_failure with it.  Inside the try (task_check) it reaches
\* `except SoftTimeLimitExceeded`: the error is stored and the task returns
\* None.  Inside on_failure its `except Exception` logs it.
WorkerTimeout(j) ==
    /\ JobSteps(j) /\ tasks[j].celery
    /\ "timeout" \notin tasks[j].faults
    /\ tasks[j].pc \in TaskCode
    /\ LET task == [tasks[j] EXCEPT !.faults = @ \cup {"timeout"}]
       IN IF tasks[j].pc = "task_check"
          THEN TaskStep(j, "task_check",
                        Update(j, None, None, None, Some(TimeoutMessage(task.kind))),
                        [task EXCEPT !.pc = "done"])
          ELSE IF tasks[j].pc = "on_failure"
          THEN TaskStep(j, "on_failure", NoUpdate, [task EXCEPT !.pc = "done"])
          ELSE TaskStep(j, tasks[j].pc, NoUpdate,
                        [task EXCEPT !.pc = "on_failure",
                                     !.exc = Some(SoftTimeLimitMessage)])

\* where execute_agent_background goes after its first update
AgentBranch(task) ==
    IF task.agent_type = "research" /\ task.clarifications THEN "phase2"
    ELSE IF task.agent_type = "research" /\ ~task.skip_clarification THEN "clarify"
    ELSE "workflow"

\* mutant: the entry stores the progress and not the status
AgentStart_NotRunning(j) ==
    /\ JobSteps(j) /\ tasks[j].kind = "agent"
    /\ TaskStep(j, "start",
                Update(j, None, Some(10), None, None),
                [tasks[j] EXCEPT !.pc = AgentBranch(tasks[j])])

\* execute_agent_background, entry
AgentStart(j) ==
    /\ JobSteps(j) /\ tasks[j].kind = "agent"
    /\ TaskStep(j, "start",
                Update(j, Some(RUNNING), Some(10), None, None),
                [tasks[j] EXCEPT !.pc = AgentBranch(tasks[j])])

\* the request carries the answers: run_research_with_context returned
AgentPhase2Done(j) ==
    TaskStep(j, "phase2",
             Update(j, Some(COMPLETED), Some(100), Some(FinalResult), None),
             [tasks[j] EXCEPT !.pc = "done"])

\* the outer `except Exception as e` of execute_agent_background:
\* update_job(job_id, error=str(e), progress=0)
AgentFailed(j, pcs, e) ==
    /\ JobSteps(j) /\ tasks[j].pc \in pcs
    /\ TaskStep(j, tasks[j].pc,
                Update(j, None, Some(0), None, Some(e)),
                [tasks[j] EXCEPT !.pc = "done", !.faults = @ \cup {"raised"}])

\* the clarification phase begins: update_job(job_id, progress=30)
AgentClarifyBegin(j) ==
    TaskStep(j, "clarify",
             Update(j, None, Some(30), None, None),
             [tasks[j] EXCEPT !.pc = "clarifying"])

\* run_research_clarification returned its questions: the arguments of
\* update_job(job_id, status=JobStatusType.WAITING_FOR_INPUT, progress=50,
\* result={...}) are evaluated, the lookup of the member raises, and
\* `except Exception as clarify_err` goes on to the direct generation
AgentClarifyDone(j) ==
    LET member == JobStatusMember("WAITING_FOR_INPUT")
    IN IF member.raised # "none"
       THEN TaskStep(j, "clarifying", NoUpdate, [tasks[j] EXCEPT !.pc = "workflow"])
       ELSE TaskStep(j, "clarifying",
                     Update(j, Some(member.value), Some(50), Some(Clarification), None),
                     [tasks[j] EXCEPT !.pc = "done"])

\* run_research_clarification raised: the same except clause
AgentClarifyFailed(j) ==
    TaskStep(j, "clarifying", NoUpdate,
             [tasks[j] EXCEPT !.pc = "workflow", !.faults = @ \cup {"unclarified"}])

\* run_agent_workflow returned its result
AgentWorkflowDone(j) ==
    TaskStep(j, "workflow",
             Update(j, Some(COMPLETED), Some(100), Some(FinalResult), None),
             [tasks[j] EXCEPT !.pc = "done"])

\* execute_pipeline_background, entry
PipelineStart(j) ==
    /\ JobSteps(j) /\ tasks[j].kind = "pipeline"
    /\ TaskStep(j, "start",
                Update(j, Some(RUNNING), Some(5), None, None),
                [tasks[j] EXCEPT !.pc = "node"])

\* the verdict of run_qa_agent on the attempt the run is at
QaPasses(task) == task.run.qa_runs + 1 = task.qa_passes_on

\* one node of the pipeline returns and its patch is merged.
\* execute_pipeline_background passes no progress callback.  In
\* execute_pipeline_task the node is wrapped: _progress_callback checks
\* for cancellation and stores the progress; asyncio.CancelledError ends
\* the run with the node unmerged, any Exception of the callback is logged
PipelineNode(j) ==
    /\ JobSteps(j) /\ tasks[j].kind = "pipeline" /\ tasks[j].run.outcome = "running"
    /\ LET task == tasks[j]
           after == InvokeNode(task.run, QaPasses(task))
           check == check_cancelled(get_job(jobs, j))
       IN IF ~task.celery \/ check.raised # "none"
          THEN TaskStep(j, "node", NoUpdate, [task EXCEPT !.run = after])
          ELSE IF check.value
          THEN TaskStep(j, "node", NoUpdate,
                        [task EXCEPT !.run.outcome = "cancelled", !.pc = "done"])
          ELSE TaskStep(j, "node",
                        Update(j, None, Some(after.state.progress), None, None),
                        [task EXCEPT !.run = after])

\* run_builder_pipeline returned: the job is completed with its result
PipelineDone(j) ==
    /\ JobSteps(j) /\ tasks[j].kind = "pipeline" /\ tasks[j].run.outcome = "ended"
    /\ TaskStep(j, "node",
                Update(j, Some(COMPLETED), Some(100), Some(FinalResult), None),
                [tasks[j] EXCEPT !.pc = "done"])

\* run_builder_pipeline raised: `except Exception as e` of
\* execute_pipeline_background, update_job(job_id, error=str(e),
\* progress=0); in execute_pipeline_task the exception goes to the task's
\* `except Exception as e`
PipelineFailed(j, e) ==
    /\ JobSteps(j) /\ tasks[j].kind = "pipeline"
    /\ IF tasks[j].celery
       THEN TaskStep(j, "node", NoUpdate,
                     [tasks[j] EXCEPT !.pc = "handler", !.exc = Some(e),
                                      !.faults = @ \cup {"raised"}])
       ELSE TaskStep(j, "node",
                     Update(j, None, Some(0), None, Some(e)),
                     [tasks[j] EXCEPT !.pc = "done", !.faults = @ \cup {"raised"}])

\* time passes between two steps
ClockTick ==
    /\ now < MaxClock
    /\ now' = now + 1
    /\ UNCHANGED <<mem, redis, procs, graph, cbs, callers, consec, jobs, tasks>>

InitJobs ==
    /\ now = 0
    /\ cbs = [p \in Providers |-> NoBreaker]
    /\ callers = [c \in Callers |-> IdleCaller]
    /\ consec = [p \in Providers |-> 0]
    /\ jobs = NoJobs
    /\ tasks = NoJobs
    /\ graph = NoGraph
    /\ mem = EmptyMem
    /\ redis = EmptyRedis
    /\ procs = [last |-> None]

NextJobs ==
    \/ \E a \in AgentTypes, skip \in BOOLEAN, celery \in BOOLEAN : RunAgent(a, skip, celery)
    \/ \E celery \in BOOLEAN : RunPipeline(celery)
    \/ \E a \in AgentTypes, clarifications \in BOOLEAN, skip \in BOOLEAN, celery \in BOOLEAN :
          CreateAgentJob(a, clarifications, skip, celery)
    \/ \E celery \in BOOLEAN, k \in 1..(MAX_AGENT_ITERATIONS + 1) : CreatePipelineJob(celery, k)
    \/ \E j \in JobIds : CancelJob(j)
    \/ \E j \in JobIds : WorkerStart(j)
    \/ \E j \in JobIds : WorkerCheckCancelled(j)
    \/ \E j \in JobIds : WorkerExcept(j)
    \/ \E j \in JobIds : WorkerReraise(j)
    \/ \E j \in JobIds : WorkerOnFailure(j)
    \/ \E j \in JobIds : WorkerTimeout(j)
    \/ \E j \in JobIds : AgentStart(j)
    \/ \E j \in JobIds : AgentPhase2Done(j)
    \/ \E j \in JobIds, e \in ResearchErrors : AgentFailed(j, {"phase2"}, e)
    \/ \E j \in JobIds, e \in AgentErrors : AgentFailed(j, {"workflow"}, e)
    \/ \E j \in JobIds : AgentClarifyBegin(j)
    \/ \E j \in JobIds : AgentClarifyDone(j)
    \/ \E j \in JobIds : AgentClarifyFailed(j)
    \/ \E j \in JobIds : AgentWorkflowDone(j)
    \/ \E j \in JobIds : PipelineStart(j)
    \/ \E j \in JobIds : PipelineNode(j)
    \/ \E j \in JobIds : PipelineDone(j)
    \/ \E j \in JobIds, e \in PipelineErrors : PipelineFailed(j, e)
    \/ ClockTick

SpecJobs == InitJobs /\ [][NextJobs]_vars

(***************************************************************************)
(* Claims about the job store and its updaters                             *)
(***************************************************************************)
\* the documented edges of the job state machine
DocumentedEdge(from, to) ==
    \/ from = QUEUED /\ to = RUNNING
    \/ from = RUNNING /\ to \in {COMPLETED, FAILED, WaitingForInput, Cancelled}

\* C1 as stated: for every job, every step of the API layer, the local
\* background functions and the worker tasks that changes the job's status
\* changes it along a documented edge: Queued -> Running, or Running ->
\* Completed, Failed, WaitingForInput or Cancelled.
C1_DocumentedEdges ==
    [][\A j \in DOMAIN jobs :
          jobs'[j].status # jobs[j].status
             => DocumentedEdge(jobs[j].status, jobs'[j].status)]_vars

\* C1: every step that changes a job's status changes it along a
\* documented edge or from Queued to Failed, the edge of an update that
\* sets an error on a job not yet marked Running.
C1_DocumentedEdgesOrQueuedFailed ==
    [][\A j \in DOMAIN jobs :
          jobs'[j].status # jobs[j].status
             => \/ DocumentedEdge(jobs[j].status, jobs'[j].status)
                \/ jobs[j].status = QUEUED /\ jobs'[j].status = FAILED]_vars

\* C1 witness: a job that went from Queued to Failed, never marked Running:
\* the soft time limit struck its worker task before the task's first update
C1_Witness ==
    \E j \in DOMAIN jobs :
        /\ jobs[j].status = FAILED /\ jobs[j].started_at = None
        /\ jobs[j].error = Some(SoftTimeLimitMessage)
        /\ tasks[j].pc = "done"

\* C2: once a job's status is Completed, Failed or Cancelled, no step of any
\* component changes its status, progress, result, error, started_at or
\* completed_at.
C2_TerminalJobFrozen ==
    [][\A j \in DOMAIN jobs :
          jobs[j].status \in {COMPLETED, FAILED, Cancelled}
             => /\ jobs'[j].status = jobs[j].status
                /\ jobs'[j].progress = jobs[j].progress
                /\ jobs'[j].result = jobs[j].result
                /\ jobs'[j].error = jobs[j].error
                /\ jobs'[j].started_at = jobs[j].started_at
                /\ jobs'[j].completed_at = jobs[j].completed_at]_vars


(***************************************************************************)
(* A run of the builder pipeline graph on its own, as the tests invoke it: *)
(* graph.ainvoke(get_initial_state(...)) with max_iterations set            *)
(***************************************************************************)
InitGraph ==
    /\ now = 0
    /\ cbs = [p \in Providers |-> NoBreaker]
    /\ callers = [c \in Callers |-> IdleCaller]
    /\ consec = [p \in Providers |-> 0]
    /\ jobs = NoJobs
    /\ tasks = NoJobs
    /\ NoStores
    /\ \E m \in 0..MaxIterations : graph = NewRun(get_initial_state("builder", m))

\* the next node returns; a QA node returns its verdict
GraphNodeReturns(passed) ==
    /\ graph.outcome = "running"
    /\ graph' = InvokeNode(graph, passed)
    /\ UNCHANGED <<mem, redis, procs, now, cbs, callers, consec, jobs, tasks>>

\* the next node raises: ainvoke raises and the run is over
GraphNodeRaises ==
    /\ graph.outcome = "running"
    /\ graph' = [graph EXCEPT !.outcome = "raised"]
    /\ UNCHANGED <<mem, redis, procs, now, cbs, callers, consec, jobs, tasks>>

NextGraph ==
    \/ \E passed \in BOOLEAN : GraphNodeReturns(passed)
    \/ GraphNodeRaises

SpecGraph == InitGraph /\ [][NextGraph]_vars

\* the event loop keeps running the graph until ainvoke returns or raises
SpecGraphFair == SpecGraph /\ WF_vars(NextGraph)

(***************************************************************************)
(* Claims about the builder pipeline graph                                 *)
(***************************************************************************)
\* what a finished run left in its state
FinalIterations == graph.state.iteration_count
FinalMax == graph.state.max_iterations

\* QA failed on each of the attempts 1 .. n of the run
FailedThrough(verdicts, n) ==
    \A i \in 1..n : i <= Len(verdicts) /\ ~verdicts[i]

\* the most attempts a run can make: the code node runs once whatever
\* max_iterations is
MostAttempts(max_iterations) == Max(1, max_iterations)

\* C11 as stated: a finished run has iteration_count <= max_iterations, and
\* iteration_count = max_iterations exactly when QA failed on every attempt.
C11_IterationsBoundedIffAllFailed ==
    graph.outcome = "ended" =>
        /\ FinalIterations <= FinalMax
        /\ FinalIterations = FinalMax
              <=> FailedThrough(graph.verdicts, Len(graph.verdicts))

\* C11 amended: a finished run has iteration_count <= max(1, max_iterations),
\* and it reaches that number exactly when QA failed on every attempt before
\* the last allowed one (the last allowed attempt may pass or fail).
C11_IterationsBounded ==
    graph.outcome = "ended" =>
        /\ FinalIterations <= MostAttempts(FinalMax)
        /\ FinalIterations = MostAttempts(FinalMax)
              <=> FailedThrough(graph.verdicts, MostAttempts(FinalMax) - 1)

\* a run that used up max_iterations = 2 and whose last attempt passed
C11_Witness ==
    /\ graph.outcome = "ended"
    /\ FinalMax = 2
    /\ graph.verdicts = <<FALSE, TRUE>>
    /\ FinalIterations = 2

\* a finished run on which QA failed every time
EndedAllFailed ==
    /\ graph.outcome = "ended"
    /\ FailedThrough(graph.verdicts, Len(graph.verdicts))

\* the run made exactly n attempts and stopped with QA failed
StoppedAfter(n) ==
    /\ graph.code_runs = n
    /\ graph.qa_runs = n
    /\ FinalIterations = n
    /\ graph.next = "END"
    /\ graph.state.qa_result = Some([passed |-> FALSE])

\* C13 as stated: every run terminates, and a run on which QA failed every
\* time ran code and qa exactly max_iterations times, makes no further retry
\* and ends with qa_result.passed = false and iteration_count = max_iterations.
C13_TerminatesAtMaxIterations ==
    /\ <>(graph.outcome # "running")
    /\ [](EndedAllFailed => StoppedAfter(FinalMax))

\* C13 amended: the same with max(1, max_iterations) attempts: the code and
\* qa nodes run once when max_iterations is below 1.
C13_TerminatesAtMostAttempts ==
    /\ <>(graph.outcome # "running")
    /\ [](EndedAllFailed => StoppedAfter(MostAttempts(FinalMax)))

\* QA failed twice with max_iterations = 2 and the run is over
C13_Witness ==
    /\ EndedAllFailed
    /\ FinalMax = 2
    /\ graph.verdicts = <<FALSE, FALSE>>
    /\ graph.code_runs = 2

(***************************************************************************)
(* should_retry_code applied to a state, as the tests call it              *)
(***************************************************************************)
\* what the state holds under "qa_result": the key absent, None, a dict
\* without "passed", a passing and a failing result
QaResults == {None, Some(EmptyDict), Some([passed |-> TRUE]), Some([passed |-> FALSE])}

\* AgentGraphState(iteration_count=..., max_iterations=...[, qa_result=...])
RetryState(iteration_count, max_iterations) ==
    [iteration_count |-> iteration_count, max_iterations |-> max_iterations]

RetryStates ==
    LET base == {RetryState(i, m) : i \in 0..MaxIterations, m \in 0..MaxIterations}
    IN base \cup {Merge(s, [qa_result |-> q]) : s \in base, q \in QaResults}

InitRetry ==
    /\ now = 0
    /\ cbs = [p \in Providers |-> NoBreaker]
    /\ callers = [c \in Callers |-> IdleCaller]
    /\ consec = [p \in Providers |-> 0]
    /\ jobs = NoJobs
    /\ tasks = NoJobs
    /\ NoStores
    /\ \E s \in RetryStates : graph = [state |-> s, outcome |-> "undecided"]

\* should_retry_code(state) returns or raises
Decide ==
    /\ graph.outcome = "undecided"
    /\ graph' = [graph EXCEPT !.outcome = RetryDecision(graph.state)]
    /\ UNCHANGED <<mem, redis, procs, now, cbs, callers, consec, jobs, tasks>>

NextRetry == Decide

SpecRetry == InitRetry /\ [][NextRetry]_vars

\* the state holds no qa_result: the key is absent or its value is None
NoQaResult(state) ==
    "qa_result" \notin DOMAIN state \/ state.qa_result = None

\* C14: when the state holds no qa_result (the key absent, or None as in the
\* initial state), should_retry_code decides to end the run.
C14_MissingQaResultEnds ==
    (graph.outcome # "undecided" /\ NoQaResult(graph.state)) => graph.outcome = "end"

(***************************************************************************)
(* Claims about pipeline and agent jobs                                    *)
(***************************************************************************)
PipelineJobs == {j \in DOMAIN tasks : tasks[j].kind = "pipeline"}

\* nothing interrupted the execution: no exception of a step, no time limit
Undisturbed(j) == tasks[j].faults = {}

\* the function or task invoked for job j has returned or raised
TaskDone(j) == tasks[j].pc = "done"

\* C12: a pipeline job whose QA fails on the attempts 1..k-1 and passes on
\* attempt k, with k <= max_iterations, that nothing else interrupts, has,
\* once its function or task is over, run code and qa exactly k times each,
\* iteration_count = k, and status Completed.
C12_PassOnAttemptK ==
    \A j \in PipelineJobs :
       (/\ tasks[j].qa_passes_on <= tasks[j].run.state.max_iterations
        /\ Undisturbed(j) /\ TaskDone(j))
          => /\ tasks[j].run.outcome = "ended"
             /\ tasks[j].run.code_runs = tasks[j].qa_passes_on
             /\ tasks[j].run.qa_runs = tasks[j].qa_passes_on
             /\ tasks[j].run.state.iteration_count = tasks[j].qa_passes_on
             /\ jobs[j].status = COMPLETED

\* a request to cancel job j was made while the job was Running, after one
\* node of its pipeline had returned and before the run ended
CancelledBetweenNodes(j) ==
    /\ tasks[j].cancel_mark # None
    /\ tasks[j].cancel_mark[1].status = RUNNING
    /\ tasks[j].cancel_mark[1].node_runs >= 1
    /\ tasks[j].cancel_mark[1].outcome = "running"

\* C15: once a Running pipeline job has been cancelled between two nodes, no
\* further node is invoked, and when its execution is over the job is
\* Cancelled with the progress it had at the cancel.
C15_CancelStopsPipeline ==
    \A j \in PipelineJobs :
       CancelledBetweenNodes(j)
          => /\ tasks[j].run.node_runs = tasks[j].cancel_mark[1].node_runs
             /\ TaskDone(j) => /\ jobs[j].status = Cancelled
                               /\ jobs[j].progress = tasks[j].cancel_mark[1].progress

ResearchJobs ==
    {j \in DOMAIN tasks : tasks[j].kind = "agent" /\ tasks[j].agent_type = "research"}

\* the job has ended as scenario A says: Completed, 100 %, with a result
EndedCompleted(j) ==
    /\ jobs[j].status = COMPLETED
    /\ jobs[j].progress = 100
    /\ jobs[j].result # None

\* C16: a research job none of whose steps raises and whose task is not
\* timed out has ended Completed with progress 100 and a result once its
\* function or task is over.
C16_ResearchCompletes ==
    \A j \in ResearchJobs :
       (Undisturbed(j) /\ TaskDone(j)) => EndedCompleted(j)

\* C17: no step lowers a job's progress, and no step changes the progress of
\* a job that is Cancelled.
C17_ProgressMonotonic ==
    [][\A j \in DOMAIN jobs :
          /\ jobs'[j].progress >= jobs[j].progress
          /\ jobs[j].status = Cancelled => jobs'[j].progress = jobs[j].progress]_vars

\* C18: no job holds a result and an error at the same time.
C18_ResultXorError ==
    \A j \in DOMAIN jobs : ~(jobs[j].result # None /\ jobs[j].error # None)

\* the arguments update_job can be given
StatusArgs == {None} \cup {Some(s) : s \in JobStatusType}
ProgressArgs == {None, Some(0), Some(50), Some(100)}
ResultArgs == {None, Some(FinalResult)}
ErrorMessages ==
    (AgentErrors \cup ResearchErrors \cup PipelineErrors
        \cup {TimeoutMessage("agent"), TimeoutMessage("pipeline"), SoftTimeLimitMessage}) \ {""}

\* C19: whatever status, progress and result accompany it, an update of a
\* job that sets an error leaves the job Failed with completed_at stamped
\* with the time of the update; and every job holding an error is Failed.
C19_ErrorForcesFailed ==
    \A j \in DOMAIN jobs :
       /\ \A status \in StatusArgs, progress \in ProgressArgs,
             result \in ResultArgs, e \in ErrorMessages :
             LET job == UpdatedJob(jobs[j], status, progress, result, Some(e), now)
             IN /\ job.error = Some(e)
                /\ job.status = FAILED
                /\ job.completed_at = Some(now)
       /\ jobs[j].error # None => jobs[j].status = FAILED

\* C19 witness: a job that was Running and completed nothing holds the
\* error a step stored, is Failed, and its completed_at is the time of that
\* update, later than its start
C19_Witness ==
    \E j \in DOMAIN jobs :
        /\ jobs[j].error # None /\ jobs[j].status = FAILED
        /\ jobs[j].started_at # None /\ jobs[j].completed_at # None
        /\ jobs[j].completed_at[1] > jobs[j].started_at[1]

(***************************************************************************)
(* The two job stores (app/services/job_queue.py) as data: the operations  *)
(* of InMemoryJobStore on its two dictionaries and of RedisJobStore on the *)
(* keys of the server.  Time is counted in half days here.                 *)
(***************************************************************************)
StoreJobIds == {1, 2}
Projects == {"p1", "p2"}
MaxHalfDays == 4

\* cleanup_old_jobs(hours=24), and COMPLETED_JOB_TTL = 48 * 3600 seconds
CleanupHalfDays == 2
COMPLETED_JOB_TTL == 4

\* Job(job_id=..., project_id=..., agent_type=..., input_context=...)
StoredJob(job_id, project_id, agent_type, t) ==
    Merge(NewJob(agent_type, t),
          [job_id |-> job_id, project_id |-> project_id, created_at |-> Some(t)])

\* datetime.isoformat() / datetime.fromisoformat()
isoformat(t) == <<"iso", t>>
fromisoformat(text) == text[2]

\* json: None is written as null
JsonNull == "null"
IsoOrNull(field) == IF field # None THEN isoformat(field[1]) ELSE JsonNull

\* Job.to_dict / Job.serialize: the dates as ISO strings, the status by value
serialize(job) ==
    [job EXCEPT !.created_at = IsoOrNull(job.created_at),
                !.started_at = IsoOrNull(job.started_at),
                !.completed_at = IsoOrNull(job.completed_at),
                !.result = IF job.result = None THEN JsonNull ELSE job.result[1],
                !.error = IF job.error = None THEN JsonNull ELSE job.error[1]]

\* Job.deserialize at time t: a missing created_at becomes utcnow()
deserialize(data, t) ==
    [data EXCEPT !.created_at = IF data.created_at # JsonNull
                                THEN Some(fromisoformat(data.created_at)) ELSE Some(t),
                 !.started_at = IF data.started_at # JsonNull
                                THEN Some(fromisoformat(data.started_at)) ELSE None,
                 !.completed_at = IF data.completed_at # JsonNull
                                  THEN Some(fromisoformat(data.completed_at)) ELSE None,
                 !.result = IF data.result = JsonNull THEN None ELSE Some(data.result),
                 !.error = IF data.error = JsonNull THEN None ELSE Some(data.error)]

\* list.append / list slices
Last(s, n) == SubSeq(s, Len(s) - Min(n, Len(s)) + 1, Len(s))
SelectIn(s, keep) == SelectSeq(s, LAMBDA x : x \in keep)

(* InMemoryJobStore *)
\* create_job
mem_create_job(m, job_id, project_id, agent_type, t) ==
    [jobs |-> Extend(m.jobs, job_id, StoredJob(job_id, project_id, agent_type, t)),
     project_jobs |-> Extend(m.project_jobs, project_id,
                             Append(Get(m.project_jobs, project_id, <<>>), job_id))]

\* get_job
mem_get_job(m, job_id) == IF job_id \in DOMAIN m.jobs THEN Some(m.jobs[job_id]) ELSE None

\* update_job
mem_update_job(m, job_id, status, progress, result, error, t) ==
    [m EXCEPT !.jobs = update_job(m.jobs, job_id, status, progress, result, error, t)]

\* sorted(jobs, key=created_at, reverse=True): stable, equal keys keep their order
InsertNewestFirst(job, sorted) ==
    LET before == SelectSeq(sorted, LAMBDA x : x.created_at[1] >= job.created_at[1])
        after == SelectSeq(sorted, LAMBDA x : x.created_at[1] < job.created_at[1])
    IN before \o <<job>> \o after

RECURSIVE SortedNewestFirst(_)
SortedNewestFirst(s) ==
    IF s = <<>> THEN <<>>
    ELSE InsertNewestFirst(s[Len(s)], SortedNewestFirst(SubSeq(s, 1, Len(s) - 1)))

\* get_project_jobs(project_id, limit): job_ids[-limit:] is the whole list for limit = 0
mem_get_project_jobs(m, project_id, limit) ==
    LET job_ids == Get(m.project_jobs, project_id, <<>>)
        taken == IF limit = 0 THEN job_ids ELSE Last(job_ids, limit)
        found == SelectIn(taken, DOMAIN m.jobs)
    IN SortedNewestFirst([i \in 1..Len(found) |-> m.jobs[found[i]]])

\* get_pending_jobs
mem_get_pending_jobs(m) == {m.jobs[j] : j \in {k \in DOMAIN m.jobs : m.jobs[k].status = QUEUED}}

\* cleanup_old_jobs(hours) at time t: the removed ids
mem_to_remove(m, hours, t) ==
    {j \in DOMAIN m.jobs : /\ is_complete(m.jobs[j])
                           /\ m.jobs[j].completed_at # None
                           /\ m.jobs[j].completed_at[1] < t - hours}

mem_cleanup_old_jobs(m, hours, t) ==
    LET to_remove == mem_to_remove(m, hours, t)
        kept == DOMAIN m.jobs \ to_remove
    IN [jobs |-> [j \in kept |-> m.jobs[j]],
        project_jobs |-> [p \in DOMAIN m.project_jobs |->
                              SelectIn(m.project_jobs[p],
                                       StoreJobIds \ {j \in to_remove : m.jobs[j].project_id = p})]]

(* RedisJobStore: the commands it sends *)
\* a key that has expired is gone
Live(r, job_id, t) ==
    /\ job_id \in DOMAIN r.job
    /\ r.job[job_id].expire_at # None => t < r.job[job_id].expire_at[1]

\* GET job:{job_id}
redis_get(r, job_id, t) == IF Live(r, job_id, t) THEN Some(r.job[job_id].data) ELSE None

\* SET job:{job_id}: the value is replaced and the key's time to live is dropped
redis_set(r, job_id, data) ==
    [r EXCEPT !.job = Extend(r.job, job_id, [data |-> data, expire_at |-> None])]

\* EXPIRE job:{job_id} seconds
redis_expire(r, job_id, ttl, t) ==
    IF Live(r, job_id, t) THEN [r EXCEPT !.job[job_id].expire_at = Some(t + ttl)] ELSE r

\* ZADD project_jobs:{project_id} {job_id: score}
redis_zadd(r, project_id, job_id, score) ==
    LET zset == Get(r.project_jobs, project_id, {})
    IN [r EXCEPT !.project_jobs =
           Extend(r.project_jobs, project_id,
                  {e \in zset : e[1] # job_id} \cup {<<job_id, score>>})]

\* ZREVRANGE: by score, highest first, equal scores by member, highest first
ZHighest(zset) ==
    CHOOSE e \in zset : \A o \in zset : o[2] < e[2] \/ (o[2] = e[2] /\ o[1] <= e[1])

RECURSIVE ZRevAll(_)
ZRevAll(zset) ==
    IF zset = {} THEN <<>> ELSE <<ZHighest(zset)[1]>> \o ZRevAll(zset \ {ZHighest(zset)})

\* ZREVRANGE key 0 stop: stop = -1 is the last element
redis_zrevrange(r, project_id, stop) ==
    LET all == ZRevAll(Get(r.project_jobs, project_id, {}))
    IN IF stop < 0 THEN SubSeq(all, 1, Len(all) + 1 + stop)
       ELSE SubSeq(all, 1, Min(stop + 1, Len(all)))

\* ZRANGEBYSCORE key -inf max
redis_zrangebyscore(r, project_id, max) ==
    {e[1] : e \in {x \in Get(r.project_jobs, project_id, {}) : x[2] <= max}}

(* RedisJobStore: its methods *)
\* create_job: SET, ZADD and SADD in one pipeline
redis_create_job(r, job_id, project_id, agent_type, t) ==
    LET job == StoredJob(job_id, project_id, agent_type, t)
        r1 == redis_set(r, job_id, serialize(job))
        r2 == redis_zadd(r1, project_id, job_id, job.created_at[1])
    IN [r2 EXCEPT !.pending_jobs = @ \cup {job_id}]

\* get_job
redis_get_job(r, job_id, t) ==
    IF redis_get(r, job_id, t) = None THEN None
    ELSE Some(deserialize(redis_get(r, job_id, t)[1], t))

\* update_job, second half: the pipeline that writes the job the caller holds
redis_write_job(r, job, status, t) ==
    LET r1 == redis_set(r, job.job_id, serialize(job))
    IN IF is_complete(job)
       THEN redis_expire([r1 EXCEPT !.pending_jobs = @ \ {job.job_id}],
                         job.job_id, COMPLETED_JOB_TTL, t)
       ELSE IF status = Some(RUNNING)
       THEN [r1 EXCEPT !.pending_jobs = @ \ {job.job_id}]
       ELSE r1

\* update_job called with nothing running in between
redis_update_job(r, job_id, status, progress, result, error, t) ==
    IF redis_get_job(r, job_id, t) = None THEN r
    ELSE redis_write_job(r, UpdatedJob(redis_get_job(r, job_id, t)[1],
                                       status, progress, result, error, t),
                         status, t)

\* the jobs of a list of ids that still exist
RECURSIVE redis_mget(_, _, _)
redis_mget(r, job_ids, t) ==
    IF job_ids = <<>> THEN <<>>
    ELSE (IF redis_get_job(r, Head(job_ids), t) = None THEN <<>>
          ELSE <<redis_get_job(r, Head(job_ids), t)[1]>>) \o redis_mget(r, Tail(job_ids), t)

\* get_project_jobs(project_id, limit)
redis_get_project_jobs(r, project_id, limit, t) ==
    redis_mget(r, redis_zrevrange(r, project_id, limit - 1), t)

\* get_pending_jobs
redis_get_pending_jobs(r, t) ==
    {redis_get_job(r, j, t)[1] : j \in {k \in r.pending_jobs : Live(r, k, t)}}

\* cleanup_old_jobs(hours): the references it removes, per project key
redis_old_refs(r, project_id, hours, t) ==
    {j \in redis_zrangebyscore(r, project_id, t - hours) : ~Live(r, j, t)}

redis_cleanup_old_jobs(r, hours, t) ==
    [r EXCEPT !.project_jobs =
        [p \in DOMAIN r.project_jobs |->
            {e \in r.project_jobs[p] : e[1] \notin redis_old_refs(r, p, hours, t)}]]

\* the number cleanup_old_jobs returns
RECURSIVE SumOver(_, _)
SumOver(S, f) ==
    IF S = {} THEN 0
    ELSE LET x == CHOOSE y \in S : TRUE IN f[x] + SumOver(S \ {x}, f)

redis_cleanup_count(r, hours, t) ==
    SumOver(DOMAIN r.project_jobs,
            [p \in DOMAIN r.project_jobs |-> Cardinality(redis_old_refs(r, p, hours, t))])

(***************************************************************************)
(* Instances of the application sharing one Redis server: update_job reads *)
(* the job, changes its copy and writes the copy back.                     *)
(***************************************************************************)
Instances == {"i1", "i2"}
MaxUpdates == 1

\* the update_job calls of the API layer and the tasks
UpdateArgs ==
    {[status |-> Some(RUNNING), progress |-> Some(10), result |-> None, error |-> None],
     [status |-> None, progress |-> Some(60), result |-> None, error |-> None],
     [status |-> None, progress |-> None, result |-> Some(CeleryTaskId), error |-> None],
     [status |-> Some(COMPLETED), progress |-> Some(100), result |-> Some(FinalResult), error |-> None],
     [status |-> None, progress |-> None, result |-> None, error |-> Some("Agent execution timed out")]}

IdleInstance == [pc |-> "idle", job |-> None, args |-> None, applied |-> <<>>]

InitRedis ==
    /\ now = 0
    /\ cbs = [p \in Providers |-> NoBreaker]
    /\ callers = [c \in Callers |-> IdleCaller]
    /\ consec = [p \in Providers |-> 0]
    /\ jobs = NoJobs
    /\ tasks = NoJobs
    /\ graph = NoGraph
    /\ mem = EmptyMem
    /\ redis = EmptyRedis
    /\ procs = [i \in Instances |-> IdleInstance]

\* an instance creates the job
InstanceCreates(i, job_id) ==
    /\ procs[i].pc = "idle"
    /\ job_id \notin DOMAIN redis.job
    /\ redis' = redis_create_job(redis, job_id, "p1", "code", now)
    /\ UNCHANGED <<mem, procs, graph, now, cbs, callers, consec, jobs, tasks>>

\* update_job up to the pipeline: get_job, `if not job: return None`, and the
\* four blocks applied to the instance's copy
InstanceReads(i, job_id, args) ==
    /\ procs[i].pc = "idle"
    /\ Len(procs[i].applied) < MaxUpdates
    /\ LET job == redis_get_job(redis, job_id, now)
       IN procs' = IF job = None THEN procs
                   ELSE [procs EXCEPT ![i].pc = "write", ![i].args = Some(args),
                                      ![i].job = Some(UpdatedJob(job[1], args.status, args.progress,
                                                                 args.result, args.error, now))]
    /\ UNCHANGED <<mem, redis, graph, now, cbs, callers, consec, jobs, tasks>>

\* update_job, the pipeline: the copy is written over the stored job
InstanceWrites(i) ==
    /\ procs[i].pc = "write"
    /\ redis' = redis_write_job(redis, procs[i].job[1], procs[i].args[1].status, now)
    /\ procs' = [procs EXCEPT ![i].pc = "idle", ![i].job = None, ![i].args = None,
                              ![i].applied = Append(@, procs[i].args[1])]
    /\ UNCHANGED <<mem, graph, now, cbs, callers, consec, jobs, tasks>>

NextRedis ==
    \/ \E i \in Instances : InstanceCreates(i, 1)
    \/ \E i \in Instances, args \in UpdateArgs : InstanceReads(i, 1, args)
    \/ \E i \in Instances : InstanceWrites(i)

SpecRedis == InitRedis /\ [][NextRedis]_vars

\* the fields an update_job call sets, with the values it gives them
Effect(args) ==
    LET job == UpdatedJob(StoredJob(1, "p1", "code", 0), args.status, args.progress,
                          args.result, args.error, 0)
        fields == (IF args.status # None \/ args.error # None THEN {"status"} ELSE {})
                    \cup (IF args.progress # None THEN {"progress"} ELSE {})
                    \cup (IF args.result # None THEN {"result"} ELSE {})
                    \cup (IF args.error # None THEN {"error"} ELSE {})
    IN [f \in fields |-> job[f]]

\* the fields the finished updates of the instances other than i have set
SetByOthers(i) ==
    UNION {UNION {DOMAIN Effect(procs[o].applied[n]) : n \in 1..Len(procs[o].applied)} :
              o \in Instances \ {i}}

\* C21: once the concurrent update_job calls of the instances have returned,
\* the stored job holds every field an instance's last update set and no
\* other instance's update set, with the value that update gave it.
C21_ConcurrentUpdatesKept ==
    (\A i \in Instances : procs[i].pc = "idle")
       => \A i \in Instances :
             procs[i].applied # <<>>
                => LET last == procs[i].applied[Len(procs[i].applied)]
                   IN \A f \in DOMAIN Effect(last) \ SetByOthers(i) :
                         redis_get_job(redis, 1, now)[1][f] = Effect(last)[f]

(***************************************************************************)
(* Threads calling InMemoryJobStore.create_job on one store: the           *)
(* interpreter can switch threads between two statements.                  *)
(***************************************************************************)
Threads == {1, 2}

IdleThread == [pc |-> "idle", project_id |-> ""]

InitThreads ==
    /\ now = 0
    /\ cbs = [p \in Providers |-> NoBreaker]
    /\ callers = [c \in Callers |-> IdleCaller]
    /\ consec = [p \in Providers |-> 0]
    /\ jobs = NoJobs
    /\ tasks = NoJobs
    /\ graph = NoGraph
    /\ mem = EmptyMem
    /\ redis = EmptyRedis
    /\ procs = [t \in Threads |-> IdleThread]

\* a step of thread t, which creates the job with id t
ThreadStep(t, pc, newMem, newPc) ==
    /\ procs[t].pc = pc
    /\ mem' = newMem
    /\ procs' = [procs EXCEPT ![t].pc = newPc]
    /\ UNCHANGED <<redis, graph, now, cbs, callers, consec, jobs, tasks>>

\* create_job(job_id, project_id, ...) is called: job = Job(...)
ThreadCalls(t, project_id) ==
    /\ procs[t].pc = "idle"
    /\ procs' = [procs EXCEPT ![t] = [pc |-> "store", project_id |-> project_id]]
    /\ UNCHANGED <<mem, redis, graph, now, cbs, callers, consec, jobs, tasks>>

\* self._jobs[job_id] = job
ThreadStoresJob(t) ==
    ThreadStep(t, "store",
               [mem EXCEPT !.jobs = Extend(@, t, StoredJob(t, procs[t].project_id, "research", now))],
               "check")

\* if project_id not in self._project_jobs:
ThreadChecksProject(t) ==
    ThreadStep(t, "check", mem,
               IF procs[t].project_id \notin DOMAIN mem.project_jobs THEN "init" ELSE "append")

\* self._project_jobs[project_id] = []
ThreadInitsProject(t) ==
    ThreadStep(t, "init",
               [mem EXCEPT !.project_jobs = Extend(@, procs[t].project_id, <<>>)],
               "append")

\* self._project_jobs[project_id].append(job_id); return job
ThreadAppends(t) ==
    ThreadStep(t, "append",
               [mem EXCEPT !.project_jobs[procs[t].project_id] = Append(@, t)],
               "done")

NextThreads ==
    \/ \E t \in Threads, p \in Projects : ThreadCalls(t, p)
    \/ \E t \in Threads : ThreadStoresJob(t)
    \/ \E t \in Threads : ThreadChecksProject(t)
    \/ \E t \in Threads : ThreadInitsProject(t)
    \/ \E t \in Threads : ThreadAppends(t)

SpecThreads == InitThreads /\ [][NextThreads]_vars

\* C22: once the threads' create_job calls have returned, get_job returns
\* every created job and the job list of each project holds every job created
\* for it.
C22_NoJobLost ==
    (\A t \in Threads : procs[t].pc = "done")
       => \A t \in Threads :
             /\ mem_get_job(mem, t) # None
             /\ \E i \in 1..Len(mem_get_project_jobs(mem, procs[t].project_id, 100)) :
                   mem_get_project_jobs(mem, procs[t].project_id, 100)[i].job_id = t

(***************************************************************************)
(* One client making the same calls on an InMemoryJobStore and on a        *)
(* RedisJobStore, one call after the other.                                *)
(***************************************************************************)
Limits == 0..3

\* the update_job calls the client makes
ClientUpdates ==
    {[status |-> Some(RUNNING), progress |-> Some(10), result |-> None, error |-> None],
     [status |-> Some(COMPLETED), progress |-> Some(100), result |-> Some(FinalResult), error |-> None]}

NoCalls == [cleaned |-> None]

InitStores ==
    /\ now = 0
    /\ cbs = [p \in Providers |-> NoBreaker]
    /\ callers = [c \in Callers |-> IdleCaller]
    /\ consec = [p \in Providers |-> 0]
    /\ jobs = NoJobs
    /\ tasks = NoJobs
    /\ graph = NoGraph
    /\ mem = EmptyMem
    /\ redis = EmptyRedis
    /\ procs = NoCalls

\* create_job on both stores, with an id not used before and later than
\* the jobs created so far
BothCreate(job_id, project_id) ==
    /\ job_id \notin DOMAIN mem.jobs /\ job_id \notin DOMAIN redis.job
    /\ \A e \in UNION {redis.project_jobs[p] : p \in DOMAIN redis.project_jobs} : e[2] < now
    /\ mem' = mem_create_job(mem, job_id, project_id, "code", now)
    /\ redis' = redis_create_job(redis, job_id, project_id, "code", now)
    /\ UNCHANGED <<procs, graph, now, cbs, callers, consec, jobs, tasks>>

\* update_job on both stores
BothUpdate(job_id, args) ==
    /\ mem' = mem_update_job(mem, job_id, args.status, args.progress, args.result, args.error, now)
    /\ redis' = redis_update_job(redis, job_id, args.status, args.progress, args.result, args.error, now)
    /\ mem' # mem \/ redis' # redis
    /\ UNCHANGED <<procs, graph, now, cbs, callers, consec, jobs, tasks>>

\* cleanup_old_jobs(hours=24) on both stores: what each returned
BothCleanup ==
    /\ mem' = mem_cleanup_old_jobs(mem, CleanupHalfDays, now)
    /\ redis' = redis_cleanup_old_jobs(redis, CleanupHalfDays, now)
    /\ procs' = [procs EXCEPT !.cleaned =
                    Some([mem |-> Cardinality(mem_to_remove(mem, CleanupHalfDays, now)),
                          redis |-> redis_cleanup_count(redis, CleanupHalfDays, now)])]
    /\ UNCHANGED <<graph, now, cbs, callers, consec, jobs, tasks>>

\* half a day passes
HalfDayPasses ==
    /\ now < MaxHalfDays
    /\ now' = now + 1
    /\ UNCHANGED <<mem, redis, procs, graph, cbs, callers, consec, jobs, tasks>>

NextStores ==
    \/ \E j \in StoreJobIds, p \in Projects : BothCreate(j, p)
    \/ \E j \in StoreJobIds, args \in ClientUpdates : BothUpdate(j, args)
    \/ BothCleanup
    \/ HalfDayPasses

SpecStores == InitStores /\ [][NextStores]_vars

\* C23: after every sequence of calls the two stores answer alike: get_job
\* for every id, get_pending_jobs, get_project_jobs for every project and
\* limit, and the number cleanup_old_jobs returned.
C23_StoresAgree ==
    /\ \A j \in StoreJobIds : mem_get_job(mem, j) = redis_get_job(redis, j, now)
    /\ mem_get_pending_jobs(mem) = redis_get_pending_jobs(redis, now)
    /\ \A p \in Projects, limit \in Limits :
          mem_get_project_jobs(mem, p, limit) = redis_get_project_jobs(redis, p, limit, now)
    /\ procs.cleaned # None => procs.cleaned[1].mem = procs.cleaned[1].redis

(***************************************************************************)
(* The agents' calls into their generation step (app/agents/*_agent.py):   *)
(* each run_*_agent builds its chain and awaits chain.ainvoke, directly or *)
(* through resilient_llm_call.                                             *)
(***************************************************************************)
StepAgents == {"research", "wireframe", "code", "qa", "pedagogy", "roadmap"}
AgentTasks == {"t1", "t2", "t3"}

\* the agents whose chain.ainvoke is handed to resilient_llm_call
UsesResilientCall(agent_type) == agent_type = "roadmap"

\* resilient_llm_call(chain.ainvoke, ..., agent_type=...): the defaults
\* max_retries=3, base_delay=2.0, max_delay=30.0
DefaultCall(agent_type) ==
    [agent_type |-> agent_type, max_retries |-> 3, base_delay |-> 20, max_delay |-> 300]

\* the errors the generation step raises here
AgentStepErrors == {TimeoutExc}

\* the agents task c may run: one task runs any agent, the remaining tasks
\* one of the agents that await chain.ainvoke directly
AgentsOf(c) ==
    IF c = "t1" THEN StepAgents ELSE {a \in StepAgents : ~UsesResilientCall(a)}

\* the failures that earlier calls of the roadmap agent, each ended by one
\* error at time 0, have left counted on the breaker of its provider
PriorFailures == 0..(DefaultFailureThreshold - 1)

\* the breaker of provider p after k such calls
BreakerAfter(p, k) ==
    [NewBreaker(p, DefaultFailureThreshold, DefaultRecoveryTimeout, DefaultHalfOpenMaxCalls)
        EXCEPT !.failure_count = k, !.last_failure_time = 0]

InitAgents ==
    /\ now = 0
    /\ \E k \in PriorFailures :
          LET p == detect_provider("roadmap")
          IN  /\ cbs = [q \in Providers |-> IF q = p /\ k > 0 THEN BreakerAfter(p, k) ELSE NoBreaker]
              /\ consec = [q \in Providers |-> IF q = p THEN k ELSE 0]
    /\ callers = [c \in AgentTasks |-> IdleCaller]
    /\ jobs = NoJobs
    /\ tasks = NoJobs
    /\ graph = NoGraph
    /\ NoStores

\* run_*_agent reaches its generation step: `await chain.ainvoke(...)`, or
\* `await resilient_llm_call(chain.ainvoke, ..., agent_type=...)`
AgentCallsStep(c, agent_type) ==
    IF UsesResilientCall(agent_type)
    THEN RStart(c, DefaultCall(agent_type))
    ELSE /\ callers[c].pc = "idle"
         /\ callers' = [callers EXCEPT ![c] =
               [IdleCaller EXCEPT !.pc = "direct", !.agent_type = agent_type, !.attempt = 1]]
         /\ UNCHANGED <<mem, redis, procs, graph, now, cbs, consec, jobs, tasks>>

\* chain.ainvoke, awaited directly, returns
DirectReturns(c) ==
    /\ callers[c].pc = "direct"
    /\ callers' = [callers EXCEPT ![c].pc = "done", ![c].returned = TRUE,
                                  ![c].hist = Append(@, Attempt(TRUE, NoExc))]
    /\ UNCHANGED <<mem, redis, procs, graph, now, cbs, consec, jobs, tasks>>

\* chain.ainvoke, awaited directly, raises: the agent raises it on
DirectRaises(c, e) ==
    /\ callers[c].pc = "direct"
    /\ callers' = [callers EXCEPT ![c].pc = "done", ![c].exc = e, ![c].exc_attempt = 1,
                                  ![c].hist = Append(@, Attempt(TRUE, e))]
    /\ UNCHANGED <<mem, redis, procs, graph, now, cbs, consec, jobs, tasks>>

NextAgents ==
    \/ \E c \in AgentTasks : \E a \in AgentsOf(c) : AgentCallsStep(c, a)
    \/ \E c \in AgentTasks : DirectReturns(c)
    \/ \E c \in AgentTasks, e \in AgentStepErrors : DirectRaises(c, e)
    \/ \E c \in AgentTasks : RAdmit(c)
    \/ \E c \in AgentTasks : RReject(c)
    \/ \E c \in AgentTasks : RSucceed(c)
    \/ \E c \in AgentTasks, e \in AgentStepErrors : RFail(c, e)
    \/ \E c \in AgentTasks : RCancelled(c)
    \/ \E c \in AgentTasks : RCancelledAsleep(c)
    \/ \E c \in AgentTasks : RWake(c)
    \/ \E c \in AgentTasks : RAdvance(c)
    \/ \E p \in Providers : RIdle(p)

SpecAgents == InitAgents /\ [][NextAgents]_vars

\* the breaker of provider p is open at time t (its recovery time not over)
BreakerOpen(reg, p, t) ==
    reg[p] # NoBreaker /\ check_state_transition(reg[p], t).state = OPEN

\* task c starts its generation step in this step
StepStarts(c) ==
    callers[c].pc \notin {"running", "direct"} /\ callers'[c].pc \in {"running", "direct"}

\* C24: no agent starts its generation step while the breaker of the step's
\* provider is open.
C24_NoStepWhileOpen ==
    [][\A c \in AgentTasks :
          StepStarts(c) => ~BreakerOpen(cbs, detect_provider(callers'[c].agent_type), now)]_vars

(***************************************************************************)
(* Claims about the breaker registry                                       *)
(***************************************************************************)
\* task c takes this step
ActsOn(c) == callers'[c] # callers[c]

\* C25: the registry keeps one breaker per provider: a lookup of a provider
\* that has a breaker returns that breaker as it is, and a step of a call
\* tagged with one provider (entry, admission, rejection, success, failure,
\* sleep) leaves the breaker of every other provider as it was.
C25_BreakerPerProvider ==
    [][ \A c \in Callers :
          ActsOn(c) =>
             LET p == callers'[c].provider
             IN  /\ \A q \in Providers \ {p} : cbs'[q] = cbs[q]
                 /\ cbs'[p].provider = p
                 /\ (callers[c].pc = "idle" /\ cbs[p] # NoBreaker) => cbs'[p] = cbs[p] ]_vars

\* C25 witness: a call tagged google has returned through a breaker that is
\* Closed with no failure counted, while calls tagged openai have failed and
\* left three or more failures counted on the openai breaker
C25_Witness ==
    \E c \in Callers, d \in Callers :
        /\ callers[c].provider = "openai" /\ callers[c].pc = "done"
        /\ callers[c].exc # NoExc
        /\ cbs["openai"].failure_count >= 3
        /\ callers[d].provider = "google" /\ callers[d].returned
        /\ cbs["google"].state = CLOSED /\ cbs["google"].failure_count = 0

(***************************************************************************)
(* The executions under fair scheduling: the event loop and the Celery     *)
(* worker run a function or task that can take a step.                     *)
(***************************************************************************)
\* the execution of some job moves to its next position
TaskAdvances ==
    /\ NextJobs
    /\ \E j \in DOMAIN tasks : tasks'[j].pc # tasks[j].pc

SpecJobsFair == InitJobs /\ [][NextJobs]_vars /\ WF_vars(TaskAdvances)

\* the workflow of job j ended with an error or was timed out
WorkflowFailed(j) ==
    j \in DOMAIN tasks /\ tasks[j].faults \cap {"raised", "timeout"} # {}

\* C28: a job whose workflow ended with an error, or was timed out, is
\* eventually Failed with an error recorded.
C28_ErrorLeadsToFailed ==
    \A j \in JobIds :
        WorkflowFailed(j) ~> (j \in DOMAIN jobs /\ jobs[j].status = FAILED
                                                /\ jobs[j].error # None)


(***************************************************************************)
(* The builder pipeline built with a progress callback                     *)
(* (_wrap_node_with_callback): each node is awaited, then the callback,    *)
(* then the node's result goes back to the graph.  calls is what the       *)
(* callback was called with, executed the nodes whose function returned.   *)
(***************************************************************************)
\* what the callback does when awaited: it returns, raises an Exception
\* (logged by the wrapper), or raises asyncio.CancelledError as the worker's
\* callback does for a cancelled job (not an Exception: it leaves the wrapper)
CallbackOutcomes == {"returned", "Exception", "CancelledError"}

\* mutant: the callback is given the name the wrapper falls back on
callback_args_NoName(result) ==
    <<Get(result, "progress", 0), "unknown">>

\* result.get("progress", 0.0), result.get("current_node", "unknown")
callback_args(result) ==
    <<Get(result, "progress", 0), Get(result, "current_node", "unknown")>>

InitCallback ==
    /\ now = 0
    /\ cbs = [p \in Providers |-> NoBreaker]
    /\ callers = [c \in Callers |-> IdleCaller]
    /\ consec = [p \in Providers |-> 0]
    /\ jobs = NoJobs
    /\ tasks = NoJobs
    /\ NoStores
    /\ \E m \in 0..MaxIterations :
          graph = [run |-> NewRun(get_initial_state("builder", m)), pc |-> "node",
                   passed |-> TRUE, result |-> None, calls |-> <<>>, executed |-> <<>>,
                   subscriber |-> "not called"]

\* _wrapped: `result = await node_fn(state)` returns
WrappedNodeReturns(passed) ==
    /\ graph.pc = "node" /\ graph.run.outcome = "running"
    /\ graph' = [graph EXCEPT
          !.pc = "callback", !.passed = passed,
          !.result = Some(NodePatch(graph.run.next, graph.run.state, passed)),
          !.executed = Append(@, graph.run.next)]
    /\ UNCHANGED <<mem, redis, procs, now, cbs, callers, consec, jobs, tasks>>

\* _wrapped: node_fn raises, and so does ainvoke
WrappedNodeRaises ==
    /\ graph.pc = "node" /\ graph.run.outcome = "running"
    /\ graph' = [graph EXCEPT !.run.outcome = "raised"]
    /\ UNCHANGED <<mem, redis, procs, now, cbs, callers, consec, jobs, tasks>>

\* mutant: whatever the callback raises leaves the wrapper
after_callback_Propagates(run, passed, outcome) ==
    IF outcome = "returned"
    THEN InvokeNode(run, passed)
    ELSE [run EXCEPT !.outcome = "raised"]

\* how the run stands after `try: await callback(...) except Exception: ...`:
\* `return result` hands the patch to the graph unless the callback raised
\* something that is not an Exception, which ends ainvoke
after_callback(run, passed, outcome) ==
    IF outcome = "CancelledError"
    THEN [run EXCEPT !.outcome = "raised"]
    ELSE InvokeNode(run, passed)

\* _wrapped: `await callback(progress, current)` inside try/except Exception,
\* then `return result`: the graph merges the result and takes the next edge
WrappedCallback(outcome) ==
    /\ graph.pc = "callback"
    /\ graph' = [graph EXCEPT
          !.pc = "node", !.result = None,
          !.calls = Append(@, callback_args(graph.result[1])),
          !.subscriber = outcome,
          !.run = after_callback(@, graph.passed, outcome)]
    /\ UNCHANGED <<mem, redis, procs, now, cbs, callers, consec, jobs, tasks>>

NextCallback ==
    \/ \E passed \in BOOLEAN : WrappedNodeReturns(passed)
    \/ WrappedNodeRaises
    \/ \E outcome \in CallbackOutcomes : WrappedCallback(outcome)

SpecCallback == InitCallback /\ [][NextCallback]_vars

\* the calls the nodes ns account for: each node's progress and name
CallsFor(ns) == [i \in 1..Len(ns) |-> <<NodeProgress(ns[i]), ns[i]>>]

\* C29: when a node is about to start or the run is over, the callback has
\* been called exactly once for each node that has executed, with that
\* node's progress and name, in the order the nodes executed; while the
\* callback for the latest node is awaited, once for each node before it.
C29_CallbackAfterEachNode ==
    IF graph.pc = "callback"
    THEN graph.calls = CallsFor(SubSeq(graph.executed, 1, Len(graph.executed) - 1))
    ELSE graph.calls = CallsFor(graph.executed)

\* C29 witness: a run that ended after QA failed once: the callback was called
\* for research, wireframe, code, qa, code, qa
C29_Witness ==
    /\ graph.run.outcome = "ended"
    /\ graph.executed = <<"research", "wireframe", "code", "qa", "code", "qa">>
    /\ Len(graph.calls) = 6
    /\ graph.calls[6] = <<80, "qa">>

(***************************************************************************)
(* list_project_jobs (GET /jobs/{project_id}/list) and the store call it   *)
(* makes: job_store.get_project_jobs(project_id, limit=..., offset=...)    *)
(***************************************************************************)
\* the keyword parameters of get_project_jobs(self, project_id, limit=50)
GetProjectJobsKeywords == {"limit"}

\* the call get_project_jobs(project_id, **kwargs) on either store: Python
\* raises TypeError for a keyword the function does not have, and the
\* function returns a list
get_project_jobs_call(listed, kwargs) ==
    IF DOMAIN kwargs \subseteq GetProjectJobsKeywords
    THEN [raised |-> "none", type |-> "list", value |-> listed]
    ELSE [raised |-> "TypeError", type |-> "none", value |-> <<>>]

\* InMemoryJobStore.get_project_jobs and RedisJobStore.get_project_jobs,
\* called with keyword arguments
mem_list_call(m, project_id, kwargs) ==
    get_project_jobs_call(mem_get_project_jobs(m, project_id, Get(kwargs, "limit", 50)),
                          kwargs)
redis_list_call(r, project_id, kwargs, t) ==
    get_project_jobs_call(redis_get_project_jobs(r, project_id, Get(kwargs, "limit", 50), t),
                          kwargs)

\* the page sizes and offsets requested
PageSizes == 1..3
Offsets == 0..2

\* the jobs of a project that the store holds, newest first
AllNewestFirst(m, project_id) == mem_get_project_jobs(m, project_id, 0)

\* a call returned the page (limit, offset) of the jobs all
IsPage(call, all, limit, offset) ==
    /\ call.raised = "none"
    /\ call.type = "dict"
    /\ call.value.total = Len(all)
    /\ call.value.items = SubSeq(all, offset + 1, Min(offset + limit, Len(all)))
    /\ call.value.has_more = (offset + limit < Len(all))

\* C30: get_project_jobs(project_id, limit, offset), on either store,
\* returns total = the number of the project's jobs, items = at most limit
\* jobs after the first offset jobs in newest-first order, and has_more =
\* whether jobs remain after the page.
C30_PaginatedProjectJobs ==
    \A p \in Projects, limit \in PageSizes, offset \in Offsets :
        LET kwargs == [limit |-> limit, offset |-> offset]
            all == AllNewestFirst(mem, p)
        IN  /\ IsPage(mem_list_call(mem, p, kwargs), all, limit, offset)
            /\ IsPage(redis_list_call(redis, p, kwargs, now), all, limit, offset)

(***************************************************************************)
(* The job endpoints get_job_status (GET /jobs/{job_id}) and cancel_job    *)
(* (POST /jobs/{job_id}/cancel) on both stores, among the calls of the     *)
(* clients of the stores: create_job, update_job with a status named as    *)
(* the callers name it (status=JobStatusType.<NAME>) or with an error,     *)
(* the periodic cleanup_old_jobs and the passing of time.  Each request is *)
(* a step of its own.  procs.last is the latest call of an endpoint or of  *)
(* a client: its arguments and what each store answered.                   *)
(***************************************************************************)
\* get_job_status(job_id): `if not job: raise ResourceNotFoundError`, then
\* `job.user_id` is read, then the JobStatus is built from the job's fields
get_job_status(found, user) ==
    IF found = None
    THEN [raised |-> "ResourceNotFoundError"]
    ELSE IF ~HasAttribute(found[1], "user_id")
    THEN [raised |-> "AttributeError"]
    ELSE IF found[1].user_id # None /\ found[1].user_id # Some(user)
    THEN [raised |-> "PermissionError"]
    ELSE [raised |-> "none", status |-> found[1].status, progress |-> found[1].progress,
          result |-> found[1].result, error |-> found[1].error,
          completed_at |-> found[1].completed_at]

InitReads ==
    /\ now = 0
    /\ cbs = [p \in Providers |-> NoBreaker]
    /\ callers = [c \in Callers |-> IdleCaller]
    /\ consec = [p \in Providers |-> 0]
    /\ jobs = NoJobs
    /\ tasks = NoJobs
    /\ graph = NoGraph
    /\ mem = EmptyMem
    /\ redis = EmptyRedis
    /\ procs = [cleaned |-> None, last |-> None]

\* the answers of the get_job_status request before this one, when the
\* latest call was such a request for the same job
PriorAnswers(last, job_id) ==
    IF last # None /\ last[1].op = "get_job_status" /\ last[1].job_id = job_id
    THEN Some([mem |-> last[1].mem, redis |-> last[1].redis])
    ELSE None

\* one get_job_status(job_id) request, answered from each store; get_job
\* writes to neither
BothGetStatus(job_id) ==
    /\ mem' = mem /\ redis' = redis
    /\ procs' = [procs EXCEPT !.last =
          Some([op |-> "get_job_status", job_id |-> job_id,
                mem |-> get_job_status(mem_get_job(mem, job_id), User),
                redis |-> get_job_status(redis_get_job(redis, job_id, now), User),
                prior |-> PriorAnswers(procs.last, job_id)])]
    /\ UNCHANGED <<graph, now, cbs, callers, consec, jobs, tasks>>

\* create_job on both stores, as BothCreate, the call being noted
CreateNoted(job_id, project_id) ==
    /\ job_id \notin DOMAIN mem.jobs /\ job_id \notin DOMAIN redis.job
    /\ \A e \in UNION {redis.project_jobs[p] : p \in DOMAIN redis.project_jobs} : e[2] < now
    /\ mem' = mem_create_job(mem, job_id, project_id, "code", now)
    /\ redis' = redis_create_job(redis, job_id, project_id, "code", now)
    /\ procs' = [procs EXCEPT !.last = Some([op |-> "create_job", job_id |-> job_id])]
    /\ UNCHANGED <<graph, now, cbs, callers, consec, jobs, tasks>>

\* the update_job calls that pass the status as a value, and
\* update_job(job_id, error=str(e))
NotedUpdates ==
    ClientUpdates
        \cup {[status |-> None, progress |-> None, result |-> None, error |-> Some(e)] :
                 e \in AgentErrors}

\* the status an update_job call asks for: FAILED when it sets an error
\* (`if error: job.status = JobStatusType.FAILED`), else the one it passes
AskedStatus(args) ==
    IF args.error # None /\ args.error # Some("") THEN "FAILED"
    ELSE CHOOSE name \in DOMAIN JobStatusMembers : Some(JobStatusMembers[name]) = args.status

\* update_job on both stores, as BothUpdate, the call being noted
UpdateNoted(job_id, args) ==
    /\ mem' = mem_update_job(mem, job_id, args.status, args.progress, args.result, args.error, now)
    /\ redis' = redis_update_job(redis, job_id, args.status, args.progress, args.result, args.error, now)
    /\ procs' = [procs EXCEPT !.last =
          Some([op |-> "update_job", job_id |-> job_id, name |-> AskedStatus(args),
                raised |-> "none"])]
    /\ UNCHANGED <<graph, now, cbs, callers, consec, jobs, tasks>>

\* the names the callers of update_job write after `JobStatusType.`
StatusNames == {"RUNNING", "COMPLETED", "CANCELLED", "WAITING_FOR_INPUT"}

\* update_job(job_id, status=JobStatusType.<name>) on both stores: the
\* argument is evaluated first, and the call is made unless that raises
BothUpdateStatus(job_id, name) ==
    LET member == JobStatusMember(name)
    IN /\ mem' = IF member.raised # "none" THEN mem
                 ELSE mem_update_job(mem, job_id, Some(member.value), None, None, None, now)
       /\ redis' = IF member.raised # "none" THEN redis
                   ELSE redis_update_job(redis, job_id, Some(member.value), None, None, None, now)
       /\ procs' = [procs EXCEPT !.last =
             Some([op |-> "update_job", job_id |-> job_id, name |-> name,
                   raised |-> member.raised])]
       /\ UNCHANGED <<graph, now, cbs, callers, consec, jobs, tasks>>

\* cancel_job(job_id) against each store
BothCancel(job_id) ==
    LET mcall == cancel_job(mem_get_job(mem, job_id), User)
        rcall == cancel_job(redis_get_job(redis, job_id, now), User)
    IN /\ mem' = IF mcall.update = None THEN mem
                 ELSE mem_update_job(mem, job_id, mcall.update[1].status,
                                     mcall.update[1].progress, None, None, now)
       /\ redis' = IF rcall.update = None THEN redis
                   ELSE redis_update_job(redis, job_id, rcall.update[1].status,
                                         rcall.update[1].progress, None, None, now)
       /\ procs' = [procs EXCEPT !.last =
             Some([op |-> "cancel_job", job_id |-> job_id,
                   mem |-> mcall.raised, redis |-> rcall.raised])]
       /\ UNCHANGED <<graph, now, cbs, callers, consec, jobs, tasks>>

\* the job the client asks about
ReadJobIds == {1}

NextReads ==
    \/ \E j \in ReadJobIds : CreateNoted(j, "p1")
    \/ \E j \in ReadJobIds, args \in NotedUpdates : UpdateNoted(j, args)
    \/ \E j \in ReadJobIds, name \in StatusNames : BothUpdateStatus(j, name)
    \/ BothCleanup
    \/ HalfDayPasses
    \/ \E j \in ReadJobIds : BothGetStatus(j)
    \/ \E j \in ReadJobIds : BothCancel(j)

SpecReads == InitReads /\ [][NextReads]_vars

\* this step is a call op of the endpoints or of the client
Called(op) ==
    /\ procs'.last # None /\ procs'.last # procs.last
    /\ procs'.last[1].op = op

\* the statuses after which a job is over, by the name an update_job call
\* asks for them with
TerminalStatuses == {COMPLETED, FAILED, Cancelled}
TerminalNames == [COMPLETED |-> COMPLETED, FAILED |-> FAILED, CANCELLED |-> Cancelled]

\* the job is stamped as over in status s
Stamped(found, s) ==
    /\ found # None
    /\ found[1].status = s
    /\ found[1].completed_at # None
    /\ is_complete(found[1])

\* C20: an update_job call that names the status Completed, Failed or
\* Cancelled for a job the stores hold leaves the job, on both stores, in
\* that status with completed_at set and counting as complete.
C20_TerminalStamped ==
    [][ (/\ Called("update_job")
         /\ procs'.last[1].name \in DOMAIN TerminalNames
         /\ mem_get_job(mem, procs'.last[1].job_id) # None
         /\ Live(redis, procs'.last[1].job_id, now))
           => /\ Stamped(mem_get_job(mem', procs'.last[1].job_id),
                         TerminalNames[procs'.last[1].name])
              /\ Stamped(redis_get_job(redis', procs'.last[1].job_id, now),
                         TerminalNames[procs'.last[1].name]) ]_vars

\* C27: a request to cancel a job that is Completed, Failed or Cancelled is
\* rejected with ValidationError, on both stores, and changes neither.
C27_CancelRejectedWhenTerminal ==
    [][ (/\ Called("cancel_job")
         /\ mem_get_job(mem, procs'.last[1].job_id) # None
         /\ mem_get_job(mem, procs'.last[1].job_id)[1].status \in TerminalStatuses
         /\ Live(redis, procs'.last[1].job_id, now))
           => /\ procs'.last[1].mem = "ValidationError"
              /\ procs'.last[1].redis = "ValidationError"
              /\ mem' = mem /\ redis' = redis ]_vars

\* the answer a reports the status, progress, result and error of job
Reports(a, job) ==
    /\ a.raised = "none"
    /\ a.status = job.status /\ a.progress = job.progress
    /\ a.result = job.result /\ a.error = job.error

\* C31: a get_job_status request answers, from each store that holds the
\* job, with the status, progress, result and error stored for it; it
\* answers as the request before it did when no create_job, update_job or
\* cancel_job call came in between; and it leaves both stores as they were.
C31_ReadsRepeatable ==
    [][ Called("get_job_status") =>
          LET r == procs'.last[1]
          IN  /\ mem' = mem /\ redis' = redis
              /\ r.prior # None => r.prior[1].mem = r.mem /\ r.prior[1].redis = r.redis
              /\ mem_get_job(mem, r.job_id) # None
                    => Reports(r.mem, mem.jobs[r.job_id])
              /\ Live(redis, r.job_id, now)
                    => Reports(r.redis, deserialize(redis.job[r.job_id].data, now)) ]_vars

(***************************************************************************)
(* Further claims about the circuit breaker (checked under SpecBreaker)    *)
(***************************************************************************)
\* the call of caller c ends in this step with the error func raised
CallFailsNow(c) ==
    /\ callers[c].pc = "running" /\ callers'[c].pc = "idle"
    /\ RaisedException(callers'[c].exc)

\* C32: with callers sharing a breaker concurrently, each failed call adds
\* exactly one to the breaker's failure counter, and a breaker that is
\* Closed always has a failure counter below failure_threshold.
C32_FailuresCountedOnce ==
    /\ [](\A p \in Breakers :
            cbs[p].state = CLOSED => cbs[p].failure_count < cbs[p].failure_threshold)
    /\ [][ \A c \in Callers :
             CallFailsNow(c) =>
                cbs'[callers[c].provider].failure_count
                   = cbs[callers[c].provider].failure_count + 1 ]_vars

\* C32 witness: one caller's call has failed and been counted, leaving the
\* breaker Closed one failure short of its threshold, while the other
\* caller's call, admitted by the same breaker, is still running
C32_Witness ==
    \E c \in Callers, d \in Callers, p \in Breakers :
        /\ callers[c].pc = "idle" /\ callers[c].provider = p
        /\ callers[c].exc = GenericExc
        /\ callers[d].pc = "running" /\ callers[d].provider = p
        /\ cbs[p].state = CLOSED
        /\ cbs[p].failure_count = cbs[p].failure_threshold - 1

\* C33: a breaker that is Open stays Open in every step except the start of
\* a call attempt made recovery_timeout or more after the last failure,
\* which turns it HalfOpen; in particular the completion of a call admitted
\* earlier leaves it Open.  (A manual reset() is not a step of the claim.)
C33_OpenLeftOnlyLazily ==
    [][ \A p \in Breakers :
          (cbs[p].state = OPEN /\ cbs'[p].state # OPEN /\ ~Reset(p)) =>
             /\ cbs'[p].state = HALF_OPEN
             /\ RecoveryElapsed(cbs[p], now)
             /\ \E c \in Callers : callers[c].pc = "idle" /\ callers'[c] # callers[c] ]_vars

\* caller c starts a call on breaker p in this step
CallArrives(c, p) ==
    callers[c].pc = "idle" /\ callers'[c] # callers[c] /\ callers'[c].provider = p

\* C34: while a breaker stays HalfOpen its probe counter is never reset and
\* never exceeds half_open_max_calls; each call admitted in HalfOpen adds one
\* to it, and a call arriving when it has reached half_open_max_calls raises
\* CircuitBreakerError, does not start the wrapped operation and changes
\* nothing in the breaker.
C34_HalfOpenBudget ==
    /\ [](\A p \in Breakers :
            cbs[p].state = HALF_OPEN => cbs[p].half_open_calls <= cbs[p].half_open_max_calls)
    /\ [][ \A p \in Breakers :
             /\ (cbs[p].state = HALF_OPEN /\ cbs'[p].state = HALF_OPEN)
                   => cbs'[p].half_open_calls >= cbs[p].half_open_calls
             /\ \A c \in Callers :
                   (CallArrives(c, p) /\ cbs'[p].state = HALF_OPEN) =>
                      IF cbs[p].state = HALF_OPEN
                         /\ cbs[p].half_open_calls >= cbs[p].half_open_max_calls
                      THEN /\ callers'[c].pc = "idle"
                           /\ callers'[c].exc = CircuitBreakerError(p)
                           /\ cbs'[p] = cbs[p]
                      ELSE /\ callers'[c].pc = "running"
                           /\ cbs'[p].half_open_calls =
                                 (IF cbs[p].state = HALF_OPEN
                                  THEN cbs[p].half_open_calls ELSE 0) + 1 ]_vars

\* C34 witness: a HalfOpen breaker whose one probe is running and has used
\* the budget, and a further call that was rejected
C34_Witness ==
    \E c \in Callers, d \in Callers, p \in Breakers :
        /\ cbs[p].state = HALF_OPEN
        /\ cbs[p].half_open_calls = cbs[p].half_open_max_calls
        /\ callers[c].pc = "running" /\ callers[c].provider = p
        /\ callers[c].admitted_in = HALF_OPEN
        /\ callers[d].pc = "idle" /\ callers[d].provider = p
        /\ callers[d].exc = CircuitBreakerError(p)

(***************************************************************************)
(* Claims about cancellation on the worker path                            *)
(***************************************************************************)
\* a request to cancel job j was made while the job was Queued and its
\* worker task had not started
CancelledQueued(j) ==
    /\ tasks[j].celery
    /\ tasks[j].cancel_mark # None
    /\ tasks[j].cancel_mark[1].status = QUEUED
    /\ tasks[j].cancel_mark[1].pc = "task_start"

\* C35: a job cancelled while Queued is Cancelled and stays so, and its
\* worker task, when it starts, ends at its cancellation check: it goes on
\* neither to the agent nor to a node, and raises nothing.
C35_CancelledQueuedNeverRuns ==
    \A j \in DOMAIN tasks :
        CancelledQueued(j)
            => /\ jobs[j].status = Cancelled
               /\ tasks[j].pc \in {"task_start", "task_check", "done"}
               /\ tasks[j].run.node_runs = 0

(***************************************************************************)
(* Further claims about the retry decision (checked under SpecRetry)       *)
(***************************************************************************)
\* the state holds a qa_result whose passed is false, and iteration_count
\* is below max_iterations
FailedBelowLimit(state) ==
    /\ ~NoQaResult(state)
    /\ ~Get(state.qa_result[1], "passed", TRUE)
    /\ Get(state, "iteration_count", 0) < Get(state, "max_iterations", 5)

\* C37: should_retry_code returns "retry" exactly when qa_result.passed is
\* false and iteration_count is below max_iterations, and "end" in every
\* other case.
C37_RetryExactlyWhenFailedBelowLimit ==
    graph.outcome # "undecided" =>
        IF FailedBelowLimit(graph.state)
        THEN graph.outcome = "retry"
        ELSE graph.outcome = "end"

(***************************************************************************)
(* Further claims about the progress callback (checked under SpecCallback) *)
(***************************************************************************)
\* the callback was awaited in this step and did what `outcomes` names
SubscriberDid(outcomes) ==
    graph.pc = "callback" /\ graph'.pc = "node" /\ graph'.subscriber \in outcomes

\* the node's patch is merged and the run goes on to the next node
RunGoesOn == graph'.run = InvokeNode(graph.run, graph.passed)

\* C38 (as stated): whatever the progress subscriber raises, the node's
\* patch is merged into the state and the run goes on to the next node as
\* if the subscriber had returned.
C38_SubscriberFailureNeverPropagates ==
    [][SubscriberDid({"Exception", "CancelledError"}) => RunGoesOn]_vars

\* C38 (amended): when the progress subscriber raises an Exception, the
\* node's patch is merged and the run goes on to the next node as if the
\* subscriber had returned; when it raises asyncio.CancelledError, as the
\* worker's subscriber does for a cancelled job, the error leaves the
\* wrapper, the patch is not merged and the run ends with that error.
C38_OnlyExceptionsSwallowed ==
    [][/\ SubscriberDid({"Exception"}) => RunGoesOn
       /\ SubscriberDid({"CancelledError"}) =>
             graph'.run = [graph.run EXCEPT !.outcome = "raised"]]_vars

\* C38 witness: the subscriber raised an Exception after the research node
\* and the run is about to enter wireframe with research's patch merged
C38_Witness ==
    /\ graph.subscriber = "Exception"
    /\ graph.pc = "node"
    /\ graph.run.outcome = "running"
    /\ graph.run.next = "wireframe"
    /\ graph.run.node_runs = 1
    /\ Get(graph.run.state, "current_node", "unknown") = "research"

(***************************************************************************)
(* The recursion ceiling of the builder pipeline.  build_builder_pipeline  *)
(* computes recursion_limit from settings.MAX_AGENT_ITERATIONS, logs it    *)
(* and returns graph.compile(): the value is handed neither to the         *)
(* compiled graph nor to ainvoke, so the run is the one of SpecGraph.      *)
(* The setting is an int taken from the environment without validation.    *)
(***************************************************************************)
\* the values of settings.MAX_AGENT_ITERATIONS considered
SettingsIterations == (0 - 1)..MaxIterations

\* recursion_limit = settings.MAX_AGENT_ITERATIONS * 2 + 5
recursion_limit(max_agent_iterations) == max_agent_iterations * 2 + 5

\* run_builder_pipeline: build_builder_pipeline(), get_initial_state(...),
\* graph.ainvoke(initial_state)
InitCeiling ==
    /\ now = 0
    /\ cbs = [p \in Providers |-> NoBreaker]
    /\ callers = [c \in Callers |-> IdleCaller]
    /\ consec = [p \in Providers |-> 0]
    /\ jobs = NoJobs
    /\ tasks = NoJobs
    /\ NoStores
    /\ \E m \in SettingsIterations : graph = NewRun(get_initial_state("builder", m))

SpecCeiling == InitCeiling /\ [][NextGraph]_vars

\* C39: a pipeline run executes at most max_iterations*2 + 5 node steps: a
\* run that has executed that many steps without reaching its end executes
\* no further node and is over with an error, not with the normal end.
C39_StepsWithinCeiling ==
    /\ graph.node_runs <= recursion_limit(FinalMax)
    /\ (graph.node_runs = recursion_limit(FinalMax) /\ graph.next # "END")
          => graph.outcome = "raised"

(***************************************************************************)
(* The clarification flow of a research job on both stores: the job is     *)
(* created, execute_agent_background runs the clarification phase, and     *)
(* respond_to_clarification is asked to resume the job.  Here a job has    *)
(* its input_context; procs holds the request, whether the questions were  *)
(* produced (asked), the answers given and what each store's request to    *)
(* resume raised.                                                          *)
(***************************************************************************)
OriginalJobId == 1
FollowUpJobId == 2

\* request.input_context: the idea, with or without a target audience
InputContexts ==
    [{"user_idea"} -> {"shop", "blog"}]
        \cup [{"user_idea", "target_audience"} -> {"shop", "blog"}]

\* body.answers
AnswerSets == {[q1 |-> "yes"], [q1 |-> "no"]}

\* Job(job_id=..., project_id=..., agent_type=..., input_context=...): the
\* fields of the dataclass and no other attribute
ContextJob(job_id, project_id, input_context, t) ==
    Merge(StoredJob(job_id, project_id, "research", t),
          [input_context |-> input_context])

\* json.dumps / json.loads of a dict
json_object(d) == <<"object", d>>
from_json_object(x) == x[2]

\* Job.serialize: asdict writes the fields of the dataclass, an attribute
\* assigned to the object besides them is not written
serialize_job(job) ==
    LET fields == [k \in JobFields |-> job[k]]
    IN [serialize(fields) EXCEPT !.input_context = json_object(job.input_context)]

\* Job.deserialize: cls(**d) takes the fields of the dataclass and raises
\* TypeError on any other key
deserialize_job(data, t) ==
    IF DOMAIN data \subseteq JobFields
    THEN [deserialize(data, t) EXCEPT !.input_context = from_json_object(data.input_context)]
    ELSE [raised |-> "TypeError"]

\* create_job(job_id, project_id, "research", input_context) on each store
mem_create_research(m, job_id, project_id, input_context, t) ==
    [mem_create_job(m, job_id, project_id, "research", t)
        EXCEPT !.jobs[job_id] = ContextJob(job_id, project_id, input_context, t)]
redis_create_research(r, job_id, project_id, input_context, t) ==
    [redis_create_job(r, job_id, project_id, "research", t)
        EXCEPT !.job[job_id].data =
                  serialize_job(ContextJob(job_id, project_id, input_context, t))]

\* get_job on each store: the in-memory store hands out the Job it holds,
\* the Redis store a Job built from the stored text
redis_get_research(r, job_id, t) ==
    IF redis_get(r, job_id, t) = None THEN None
    ELSE Some(deserialize_job(redis_get(r, job_id, t)[1], t))

\* `job = job_store.get_job(job_id); job.clarification_data = {...}`: a new
\* attribute of the object get_job returned, which is the stored Job on the
\* in-memory store and a copy nobody keeps on the Redis store
clarification_data_for(request) ==
    [original_context |-> request.input_context, project_id |-> request.project_id]
mem_set_clarification_data(m, job_id, request) ==
    IF mem_get_job(m, job_id) = None THEN m
    ELSE [m EXCEPT !.jobs[job_id] =
                      Extend(@, "clarification_data", clarification_data_for(request))]
redis_set_clarification_data(r, job_id, request, t) == r

\* respond_to_clarification: the context of the follow-up job, from the
\* clarification_data of the job get_job returned
enriched_context(job, answers) ==
    LET clarification_data == job.clarification_data
        original_context == Get(clarification_data, "original_context", EmptyDict)
    IN Merge(original_context,
             [_clarifications |-> answers, skip_clarification |-> TRUE])

\* respond_to_clarification: the project of the follow-up job
follow_up_project(job) ==
    IF "project_id" \in DOMAIN job.clarification_data
    THEN job.clarification_data.project_id
    ELSE job.project_id

\* respond_to_clarification(job_id, body), its statements in their order up
\* to the first that raises: the job is looked up; `not job.result or
\* job.result.get("is_complete") is not False or job.status !=
\* JobStatusType.WAITING_FOR_INPUT` is evaluated from the left, the member
\* being looked up only for a job whose result holds questions;
\* `job.clarification_data` is read; the follow-up job is created with
\* create_job(..., user_id=user.id)
respond_to_clarification(found, answers) ==
    IF found = None
    THEN [raised |-> "ResourceNotFoundError"]
    ELSE IF found[1].result = None \/ found[1].result # Some(Clarification)
    THEN [raised |-> "ValidationError"]
    ELSE IF JobStatusMember("WAITING_FOR_INPUT").raised # "none"
    THEN [raised |-> JobStatusMember("WAITING_FOR_INPUT").raised]
    ELSE IF found[1].status # JobStatusMember("WAITING_FOR_INPUT").value
    THEN [raised |-> "ValidationError"]
    ELSE IF ~HasAttribute(found[1], "clarification_data")
    THEN [raised |-> "AttributeError"]
    ELSE IF create_job_call(HandlerCreateKeywords).raised # "none"
    THEN [raised |-> create_job_call(HandlerCreateKeywords).raised]
    ELSE [raised |-> "none", project_id |-> follow_up_project(found[1]),
          input_context |-> enriched_context(found[1], answers)]

InitResume ==
    /\ now = 0
    /\ cbs = [p \in Providers |-> NoBreaker]
    /\ callers = [c \in Callers |-> IdleCaller]
    /\ consec = [p \in Providers |-> 0]
    /\ jobs = NoJobs
    /\ tasks = NoJobs
    /\ graph = NoGraph
    /\ mem = EmptyMem
    /\ redis = EmptyRedis
    /\ procs = [pc |-> "idle", request |-> None, asked |-> FALSE, answers |-> None,
                mem_raised |-> "none", redis_raised |-> "none"]

\* create_job(job_id, project_id, "research", input_context) on both stores,
\* for the request execute_agent_background is then invoked with
ResearchCreated(project_id, input_context) ==
    /\ procs.pc = "idle"
    /\ create_job_call(CreateJobKeywords).raised = "none"
    /\ mem' = mem_create_research(mem, OriginalJobId, project_id, input_context, now)
    /\ redis' = redis_create_research(redis, OriginalJobId, project_id, input_context, now)
    /\ procs' = [procs EXCEPT !.pc = "queued",
                    !.request = Some([project_id |-> project_id,
                                      input_context |-> input_context])]
    /\ UNCHANGED <<graph, now, cbs, callers, consec, jobs, tasks>>

\* execute_agent_background, entry: update_job(job_id, status=RUNNING,
\* progress=10), then `await _sync_job_to_db`
BackgroundStart ==
    /\ procs.pc = "queued"
    /\ mem' = mem_update_job(mem, OriginalJobId, Some(RUNNING), Some(10), None, None, now)
    /\ redis' = redis_update_job(redis, OriginalJobId, Some(RUNNING), Some(10), None, None, now)
    /\ procs' = [procs EXCEPT !.pc = "started"]
    /\ UNCHANGED <<graph, now, cbs, callers, consec, jobs, tasks>>

\* clarification phase, first part: update_job(job_id, progress=30), then
\* `await run_research_clarification(...)`
ClarificationBegin ==
    /\ procs.pc = "started"
    /\ mem' = mem_update_job(mem, OriginalJobId, None, Some(30), None, None, now)
    /\ redis' = redis_update_job(redis, OriginalJobId, None, Some(30), None, None, now)
    /\ procs' = [procs EXCEPT !.pc = "clarifying"]
    /\ UNCHANGED <<graph, now, cbs, callers, consec, jobs, tasks>>

\* clarification phase, run_research_clarification returned the questions:
\* clarification_data is set on the job get_job returned; then the
\* arguments of update_job(job_id, status=JobStatusType.WAITING_FOR_INPUT,
\* progress=50, result=questions) are evaluated: the lookup of the member
\* raises and `except Exception as clarify_err` goes on to the direct
\* generation
ClarificationPhase ==
    /\ procs.pc = "clarifying"
    /\ LET j == OriginalJobId
           request == procs.request[1]
           member == JobStatusMember("WAITING_FOR_INPUT")
           m1 == mem_set_clarification_data(mem, j, request)
           r1 == redis_set_clarification_data(redis, j, request, now)
       IN /\ mem' = IF member.raised # "none" THEN m1
                    ELSE mem_update_job(m1, j, Some(member.value), Some(50),
                                        Some(Clarification), None, now)
          /\ redis' = IF member.raised # "none" THEN r1
                      ELSE redis_update_job(r1, j, Some(member.value), Some(50),
                                            Some(Clarification), None, now)
          /\ procs' = [procs EXCEPT !.asked = TRUE,
                          !.pc = IF member.raised # "none" THEN "generating" ELSE "waiting"]
    /\ UNCHANGED <<graph, now, cbs, callers, consec, jobs, tasks>>

\* clarification phase, run_research_clarification raised: `except
\* Exception as clarify_err` logs it and goes on to the direct generation;
\* no questions were produced and clarification_data is not set
ClarificationFailed ==
    /\ procs.pc = "clarifying"
    /\ procs' = [procs EXCEPT !.pc = "generating"]
    /\ UNCHANGED <<mem, redis, graph, now, cbs, callers, consec, jobs, tasks>>

\* execute_agent_background, the direct generation: run_agent_workflow
\* returned and the job is completed with the result
DirectGeneration ==
    /\ procs.pc = "generating"
    /\ mem' = mem_update_job(mem, OriginalJobId, Some(COMPLETED), Some(100),
                             Some(FinalResult), None, now)
    /\ redis' = redis_update_job(redis, OriginalJobId, Some(COMPLETED), Some(100),
                                 Some(FinalResult), None, now)
    /\ procs' = [procs EXCEPT !.pc = "generated"]
    /\ UNCHANGED <<graph, now, cbs, callers, consec, jobs, tasks>>

\* the direct generation, run_agent_workflow raised: `except Exception as
\* e` stores update_job(job_id, error=str(e), progress=0)
GenerationFailed(e) ==
    /\ procs.pc = "generating"
    /\ mem' = mem_update_job(mem, OriginalJobId, None, Some(0), None, Some(e), now)
    /\ redis' = redis_update_job(redis, OriginalJobId, None, Some(0), None, Some(e), now)
    /\ procs' = [procs EXCEPT !.pc = "generated"]
    /\ UNCHANGED <<graph, now, cbs, callers, consec, jobs, tasks>>

\* the names given to the status of a job that is to hold questions
SetUpNames == {"WAITING_FOR_INPUT", "RUNNING"}

\* update_job(job_id, status=JobStatusType.<name>, result=questions), then
\* `stored_job = get_job(job_id); stored_job.clarification_data = {...}`:
\* the client's calls that set a job up as one that waits for answers; the
\* status argument is evaluated first, and nothing is called when it raises
ClientSetsUp(name) ==
    /\ procs.pc = "queued"
    /\ LET j == OriginalJobId
           member == JobStatusMember(name)
           m1 == mem_update_job(mem, j, Some(member.value), None,
                                Some(Clarification), None, now)
           r1 == redis_update_job(redis, j, Some(member.value), None,
                                  Some(Clarification), None, now)
       IN /\ mem' = IF member.raised # "none" THEN mem
                    ELSE mem_set_clarification_data(m1, j, procs.request[1])
          /\ redis' = IF member.raised # "none" THEN redis
                      ELSE redis_set_clarification_data(r1, j, procs.request[1], now)
          /\ procs' = [procs EXCEPT !.asked = (member.raised = "none"), !.pc = "set_up"]
    /\ UNCHANGED <<graph, now, cbs, callers, consec, jobs, tasks>>

\* respond_to_clarification(job_id, answers) against each store, at any
\* time after the job was created: the follow-up job is created with the
\* enriched context unless the request raised
Responded(answers) ==
    /\ procs.pc \in {"queued", "started", "clarifying", "waiting", "generating",
                   "generated", "set_up"}
    /\ LET mres == respond_to_clarification(mem_get_job(mem, OriginalJobId), answers)
           rres == respond_to_clarification(redis_get_research(redis, OriginalJobId, now),
                                            answers)
       IN /\ mem' = IF mres.raised = "none"
                    THEN mem_create_research(mem, FollowUpJobId, mres.project_id,
                                             mres.input_context, now)
                    ELSE mem
          /\ redis' = IF rres.raised = "none"
                      THEN redis_create_research(redis, FollowUpJobId, rres.project_id,
                                                 rres.input_context, now)
                      ELSE redis
          /\ procs' = [procs EXCEPT !.pc = "responded", !.answers = Some(answers),
                                    !.mem_raised = mres.raised,
                                    !.redis_raised = rres.raised]
    /\ UNCHANGED <<graph, now, cbs, callers, consec, jobs, tasks>>

NextResume ==
    \/ \E p \in Projects, c \in InputContexts : ResearchCreated(p, c)
    \/ BackgroundStart
    \/ ClarificationBegin
    \/ ClarificationPhase
    \/ ClarificationFailed
    \/ DirectGeneration
    \/ \E e \in AgentErrors : GenerationFailed(e)
    \/ \E name \in SetUpNames : ClientSetsUp(name)
    \/ \E a \in AnswerSets : Responded(a)
    \/ HalfDayPasses

SpecResume == InitResume /\ [][NextResume]_vars

\* the request to resume was made for a job whose questions had been
\* produced, and has been answered
ResumeAnswered == procs.pc = "responded" /\ procs.asked

\* the follow-up job exists, Queued, beside the original job
FollowUpQueued(found) == found # None /\ found[1].status = QUEUED

\* C26: a request to resume a job whose clarifying questions have been
\* produced raises nothing and creates, on both stores, a job with a new id
\* in status Queued beside the original job.
C26_ResumeLeavesOriginal ==
    ResumeAnswered =>
        /\ procs.mem_raised = "none" /\ procs.redis_raised = "none"
        /\ OriginalJobId # FollowUpJobId
        /\ mem_get_job(mem, OriginalJobId) # None
        /\ FollowUpQueued(mem_get_job(mem, FollowUpJobId))
        /\ FollowUpQueued(redis_get_research(redis, FollowUpJobId, now))

\* the job was created and its context carries the original input and the
\* answers
CarriesOriginalAndAnswers(found, original, answers) ==
    /\ found # None
    /\ \A k \in DOMAIN original :
          k \in DOMAIN found[1].input_context /\ found[1].input_context[k] = original[k]
    /\ "_clarifications" \in DOMAIN found[1].input_context
    /\ found[1].input_context["_clarifications"] = answers

\* C40: the job created by resume carries the original job's input_context
\* together with the supplied answers, on the in-memory store and on the
\* Redis store alike.
C40_ResumeCarriesOriginalInput ==
    ResumeAnswered =>
        LET original == procs.request[1].input_context
            answers == procs.answers[1]
        IN /\ CarriesOriginalAndAnswers(
                  mem_get_job(mem, FollowUpJobId), original, answers)
           /\ CarriesOriginalAndAnswers(
                  redis_get_research(redis, FollowUpJobId, now), original, answers)

====
